---------------------------- MODULE Spec2Model ----------------------------
(***************************************************************************)
(* Model of the payroll reconciliation pipeline of xero-automation:        *)
(*   - cap_regular_hours_in_parsed_data,                                   *)
(*     consolidate_data (POST /api/consolidate) (src/src/api_server.py)    *)
(*   - DailyEntry / EmployeeTimesheet / PayrollData (src/src/models.py)    *)
(*   - DataConsolidator                       (src/src/consolidator.py)    *)
(*   - EmployeeMatcher, validate_against_xero (src/src/validation.py,      *)
(*                                             src/src/api_server.py)      *)
(*   - TimesheetBuilder                       (src/src/timesheet_builder.py)*)
(*   - SiteTimesheetParser, TravelTimeParser,                              *)
(*     OvertimeRatesParser                    (src/src/parsers.py)         *)
(*                                                                         *)
(* Hours are exact numbers (the code uses Python floats; the values drawn  *)
(* here are exactly representable).  Dates are day numbers counted from    *)
(* 2024-01-01 (day 0); isoformat() is modelled by IsoFormat.               *)
(***************************************************************************)
EXTENDS Integers, Sequences, FiniteSets, TLC

VARIABLES
    cap_pc,      \* capping: "start" | "capped" | "loaded" | "idle"
    site_in,     \* capping: site_data["employees"] as parsed (ghost copy of the input)
    site_out,    \* capping: site_data["employees"] after the in-place capping
    temp_parsed_data,        \* /api/consolidate: the content of temp_parsed_data.json
    temp_validation_result,  \* /api/consolidate: the content of temp_validation_result.json
    cons_pc,     \* consolidation: "start" | "consolidated" | "exported" | "reported"
                 \*                | "from_dict" | "idle"
    cons_in,     \* the arguments of consolidate
    cons_out,    \* the outcome of the last consolidate call, with the
                 \* unknown-region records it left on the DataConsolidator
    export_out,  \* the dict returned by to_target_json_format
    report_out,  \* the dict returned by get_unknown_region_report
    ts_in,       \* the dict handed to EmployeeTimesheet.from_dict
    ts_out,      \* the outcome of EmployeeTimesheet.from_dict
    cons_calls,  \* the number of consolidate calls made on the DataConsolidator
    entry_pc,    \* DailyEntry construction: "start" | "constructed" | "idle"
    entry_in,    \* the arguments of DailyEntry(...)
    entry_out,   \* the outcome of DailyEntry(...)
    m_pc,        \* matching: "session" | "validated" | "tiers" | "idle"
    xero_employees,   \* EmployeeMatcher.xero_employees
    employee_lookup,  \* EmployeeMatcher._employee_lookup, in insertion order
    match_cache,      \* EmployeeMatcher._match_cache
    confirmed,   \* history: the names confirm_match accepted since the roster was set
    dropped,     \* history: the cache the last set_xero_employees found
    calls,       \* the number of matcher calls made in the session
    match_call,  \* the last matcher call and what it returned
    val_in,      \* the arguments of validate_against_xero
    val_out,     \* the dict returned by validate_against_xero
    build_pc,    \* payload building: "start" | "built" | "idle"
    build_in,    \* the arguments of build_timesheet
    build_out,   \* the outcome of build_timesheet
    parse_pc,    \* file reading: "start" | "parsed" | "idle"
    parse_in,    \* the reader and the file handed to its parse
    parse_out    \* the outcome of parse

capVars == <<cap_pc, site_in, site_out, temp_parsed_data, temp_validation_result>>

consVars == <<cons_pc, cons_in, cons_out, export_out, report_out, ts_in, ts_out,
             cons_calls>>

entryVars == <<entry_pc, entry_in, entry_out>>

matchVars == <<m_pc, xero_employees, employee_lookup, match_cache, confirmed, dropped, calls,
               match_call, val_in, val_out>>

buildVars == <<build_pc, build_in, build_out>>

parseVars == <<parse_pc, parse_in, parse_out>>

vars == <<capVars, consVars, entryVars, matchVars, buildVars, parseVars>>

\* Optional[float]: {} is None, {r} is the number r
NoValue == {}

(***************************************************************************)
(* Generic helpers                                                         *)
(***************************************************************************)
Min(a, b) == IF a <= b THEN a ELSE b

Max(a, b) == IF a >= b THEN a ELSE b

RECURSIVE SumSeq(_)
SumSeq(s) == IF s = <<>> THEN 0 ELSE Head(s) + SumSeq(Tail(s))

\* the positions k of s, in order, with k \in keep
RECURSIVE PositionsIn(_, _)
PositionsIn(n, keep) ==
    IF n = 0 THEN <<>>
    ELSE IF n \in keep THEN Append(PositionsIn(n - 1, keep), n)
         ELSE PositionsIn(n - 1, keep)

(***************************************************************************)
(* cap_regular_hours_in_parsed_data (api_server.py 866-965)                *)
(***************************************************************************)
RegularCap == 40

\* regular_entries / overtime_entries, as positions in the employee's entry list
RegularIdx(entries) ==
    PositionsIn(Len(entries), {k \in 1..Len(entries) : entries[k].hour_type = "REGULAR"})

OvertimeIdx(entries) ==
    PositionsIn(Len(entries), {k \in 1..Len(entries) : entries[k].hour_type = "OVERTIME"})

HoursAt(entries, idxs) == SumSeq([k \in 1..Len(idxs) |-> entries[idxs[k]].hours])

\* sorted(regular_entries, key=entry_date, reverse=True): Python's sort is stable,
\* also under reverse=True, so entries of one date keep their list order.
InsertLatestFirst(sorted, i, entries) ==
    LET later == {p \in 1..Len(sorted) :
                    entries[sorted[p]].entry_date >= entries[i].entry_date}
        n == Cardinality(later)
    IN SubSeq(sorted, 1, n) \o <<i>> \o SubSeq(sorted, n + 1, Len(sorted))

\* mutant: the regular entries are reduced in list order
SortInListOrder(idxs, entries) == idxs

RECURSIVE SortLatestFirst(_, _)
SortLatestFirst(idxs, entries) ==
    IF idxs = <<>> THEN <<>>
    ELSE InsertLatestFirst(SortLatestFirst(SubSeq(idxs, 1, Len(idxs) - 1), entries),
                           idxs[Len(idxs)], entries)

\* mutant: only the latest entry is reduced
BuildReductionsLatestOnly(order, entries, remaining_excess, reductions) ==
    IF order = <<>> THEN reductions
    ELSE [reductions EXCEPT
            ![Head(order)] = Min(entries[Head(order)].hours, remaining_excess)]

\* the loop that fills `reductions` (entry index -> amount), lines 926-940
RECURSIVE BuildReductions(_, _, _, _)
BuildReductions(order, entries, remaining_excess, reductions) ==
    IF order = <<>> \/ remaining_excess <= 0 THEN reductions
    ELSE LET idx == Head(order)
             entry_hours == entries[idx].hours
         IN IF entry_hours >= remaining_excess
            THEN BuildReductions(Tail(order), entries, 0,
                                 [reductions EXCEPT ![idx] = remaining_excess])
            ELSE BuildReductions(Tail(order), entries, remaining_excess - entry_hours,
                                 [reductions EXCEPT ![idx] = entry_hours])

\* lines 943-955: new hours of every entry (0 marks an entry for removal)
ApplyReductions(entries, reductions) ==
    [i \in 1..Len(entries) |->
        IF reductions[i] = 0 THEN entries[i]
        ELSE LET new_hours == entries[i].hours - reductions[i]
             IN [entries[i] EXCEPT !.hours = IF new_hours > 0 THEN new_hours ELSE 0]]

\* line 959: [entry for entry in entries if float(entry["hours"]) > 0]
RemoveZeroHours(entries) ==
    LET keep == PositionsIn(Len(entries), {k \in 1..Len(entries) : entries[k].hours > 0})
    IN [k \in 1..Len(keep) |-> entries[keep[k]]]

\* mutant: every employee is capped
HasOvertimeEntriesAlways(entries) == TRUE

\* line 893: only an employee with overtime entries is capped
HasOvertimeEntries(entries) == OvertimeIdx(entries) # <<>>

\* the loop body for one employee_data (lines 885-963)
CapEmployeeEntries(entries) ==
    IF ~HasOvertimeEntries(entries) THEN entries
    ELSE LET regular == RegularIdx(entries)
             total_regular_hours == HoursAt(entries, regular)
         IN IF total_regular_hours <= RegularCap THEN entries
            ELSE LET excess_hours == total_regular_hours - RegularCap
                     order == SortLatestFirst(regular, entries)
                     reductions == BuildReductions(order, entries, excess_hours,
                                                   [i \in 1..Len(entries) |-> 0])
                 IN RemoveZeroHours(ApplyReductions(entries, reductions))

cap_regular_hours_in_parsed_data(employees) ==
    [i \in 1..Len(employees) |->
        [employees[i] EXCEPT !.entries = CapEmployeeEntries(employees[i].entries)]]

(***************************************************************************)
(* Strings and dates                                                       *)
(***************************************************************************)
\* str.strip() on the strings the model draws
Strip(s) ==
    CASE s = " " -> ""
      [] s = " Ann Lee " -> "Ann Lee"
      [] s = " John Smith " -> "John Smith"
      [] s = " hol " -> "hol"
      [] s = " HOL " -> "HOL"
      [] OTHER -> s

\* str.upper() on the cell texts the model draws
Upper(s) ==
    CASE s = "hol" -> "HOL"
      [] s = " hol " -> " HOL "
      [] s = "South" -> "SOUTH"
      [] OTHER -> s

\* str.lower() on the strings the model draws
Lower(s) ==
    CASE s = "Ann Lee" -> "ann lee"
      [] s = "ANN LEE" -> "ann lee"
      [] s = " Ann Lee " -> " ann lee "
      [] s = "Ann Leigh" -> "ann leigh"
      [] s = "Bob Ray" -> "bob ray"
      [] s = "John Smith" -> "john smith"
      [] s = " John Smith " -> " john smith "
      [] s = "Jon Smith" -> "jon smith"
      [] s = "John Doe" -> "john doe"
      [] s = "Jack Smyth" -> "jack smyth"
      [] s = "Smithers" -> "smithers"
      [] s = "Bo Smart" -> "bo smart"
      [] s = "John Lee" -> "john lee"
      [] OTHER -> s

\* Python's order on the employee names the model draws (code point order)
NameOrder == <<" Ann Lee ", "ANN LEE", "Ann Lee", "Ann Leigh", "Bob Ray", "ann lee">>

NameRank(s) == CHOOSE k \in 1..Len(NameOrder) : NameOrder[k] = s

\* date(1900, 1, 1), the travel parser's placeholder (parsers.py 970), as a day number
SentinelDate == -45290

\* entry_date.year == 1900
YearIs1900(d) == d >= SentinelDate /\ d < SentinelDate + 365

\* date.isoformat(): <<year, month, day>> of a day number of 1900, 2024 or 2025
DaysIn2024 == 366

MonthLengths(year) ==
    IF year = 2024 THEN <<31, 29, 31, 30, 31, 30, 31, 31, 30, 31, 30, 31>>
    ELSE <<31, 28, 31, 30, 31, 30, 31, 31, 30, 31, 30, 31>>

RECURSIVE MonthAndDay(_, _, _)
MonthAndDay(lengths, month, dayOfYear) ==
    IF dayOfYear < lengths[month] THEN <<month, dayOfYear + 1>>
    ELSE MonthAndDay(lengths, month + 1, dayOfYear - lengths[month])

IsoFormat(d) ==
    LET year == IF YearIs1900(d) THEN 1900
                ELSE IF d < DaysIn2024 THEN 2024 ELSE 2025
        dayOfYear == IF YearIs1900(d) THEN d - SentinelDate
                     ELSE IF d < DaysIn2024 THEN d ELSE d - DaysIn2024
    IN <<year>> \o MonthAndDay(MonthLengths(year), 1, dayOfYear)

(***************************************************************************)
(* models.py                                                               *)
(***************************************************************************)
HourTypes == {"REGULAR", "OVERTIME", "TRAVEL", "HOLIDAY"}

MaxDailyHours == 24

\* mutant: the upper bound on the hours is not checked
DailyEntryValidNoUpperBound(hours, region_name, overtime_rate) ==
    /\ ~(hours < 0)
    /\ ~(region_name = "" \/ Strip(region_name) = "")
    /\ ~(\E r \in overtime_rate : r < 0)

\* DailyEntry._validate (models.py 47-59): TRUE when construction succeeds
DailyEntryValid(hours, region_name, overtime_rate) ==
    /\ ~(hours < 0)
    /\ ~(hours > MaxDailyHours)
    /\ ~(region_name = "" \/ Strip(region_name) = "")
    /\ ~(\E r \in overtime_rate : r < 0)

\* mutant: the entry dates are not compared with the end date
EmployeeTimesheetValidNoDates(employee_name, daily_entries, pay_period_end_date) ==
    /\ ~(employee_name = "" \/ Strip(employee_name) = "")
    /\ daily_entries # <<>>

\* EmployeeTimesheet._validate (models.py 111-125): TRUE when construction succeeds
EmployeeTimesheetValid(employee_name, daily_entries, pay_period_end_date) ==
    /\ ~(employee_name = "" \/ Strip(employee_name) = "")
    /\ daily_entries # <<>>
    /\ \A k \in 1..Len(daily_entries) :
          ~(daily_entries[k].entry_date > pay_period_end_date)

\* PayrollData._validate (models.py 201-212)
PayrollDataValid(employee_timesheets, pay_period_end_date) ==
    /\ employee_timesheets # <<>>
    /\ \A k \in 1..Len(employee_timesheets) :
          employee_timesheets[k].pay_period_end_date = pay_period_end_date

(***************************************************************************)
(* consolidator.py                                                         *)
(***************************************************************************)
\* a call that returns `value`, and a call that raises
Returned(value) == [ok |-> TRUE, value |-> value]

Raises == [ok |-> FALSE, value |-> <<>>]

\* _validate_input_data (152-196): TRUE when it does not raise
ValidateInputData(site_data, travel_data, overtime_data) ==
    /\ site_data.file_type = "site_timesheet"
    /\ site_data.has_employees
    /\ site_data.has_end_date
    /\ travel_data.file_type = "travel_time"
    /\ travel_data.has_employees
    /\ overtime_data.file_type = "overtime_rates"
    /\ overtime_data.has_lookup

\* .get('employees', [])
EmployeesOf(data) == IF data.has_employees THEN data.employees ELSE <<>>

\* every entry date of a source file, in file order
RECURSIVE EntryDatesOf(_)
EntryDatesOf(employees) ==
    IF employees = <<>> THEN <<>>
    ELSE [k \in 1..Len(Head(employees).entries) |->
              Head(employees).entries[k].entry_date] \o EntryDatesOf(Tail(employees))

SeqRange(s) == {s[k] : k \in 1..Len(s)}

MinOf(S) == CHOOSE x \in S : \A y \in S : x <= y

MaxOf(S) == CHOOSE x \in S : \A y \in S : x >= y

MixedPeriodDays == 30

\* lines 46-67: the authoritative pay-period end date
AuthoritativeEndDate(site_data) ==
    LET all_dates == SeqRange(EntryDatesOf(EmployeesOf(site_data)))
    IN IF all_dates # {} /\ MaxOf(all_dates) - MinOf(all_dates) > MixedPeriodDays
       THEN MaxOf(all_dates)
       ELSE site_data.pay_period_end_date

MaxSpanDays == 365

\* mutant: a span of more than 30 days is already too large
ValidateDateRangesStrict(site_data, travel_data) ==
    LET all_dates == SeqRange(EntryDatesOf(EmployeesOf(site_data)))
                     \cup {d \in SeqRange(EntryDatesOf(EmployeesOf(travel_data))) :
                             ~YearIs1900(d)}
    IN all_dates # {} => ~(MaxOf(all_dates) - MinOf(all_dates) > MixedPeriodDays)

\* mutant: no date range is too large
ValidateDateRangesLenient(site_data, travel_data) == TRUE

\* _validate_date_ranges (198-257): TRUE when it does not raise (the other
\* findings are printed warnings)
ValidateDateRanges(site_data, travel_data) ==
    LET all_dates == SeqRange(EntryDatesOf(EmployeesOf(site_data)))
                     \cup {d \in SeqRange(EntryDatesOf(EmployeesOf(travel_data))) :
                             ~YearIs1900(d)}
    IN all_dates # {} => ~(MaxOf(all_dates) - MinOf(all_dates) > MaxSpanDays)

\* _build_employee_name_mapping / _get_canonical_employee_name (259-303):
\* every name maps to itself
CanonicalEmployeeName(employee_name) == employee_name

\* _lookup_overtime_rate (385-411); lookup is the dict in insertion order
\* mutant: only a record under exactly the employee's name is consulted
LookupOvertimeRateExactOnly(employee_name, overtime_data) ==
    LET lookup == IF overtime_data.has_lookup THEN overtime_data.lookup ELSE <<>>
        exact == {k \in 1..Len(lookup) : lookup[k].name = employee_name}
    IN IF \E k \in exact : lookup[k].has_different_overtime_rate
       THEN lookup[CHOOSE k \in exact : TRUE].overtime_rate
       ELSE NoValue

RECURSIVE LookupCaseInsensitive(_, _)
LookupCaseInsensitive(employee_name, lookup) ==
    IF lookup = <<>> THEN NoValue
    ELSE IF Lower(Head(lookup).name) = Lower(employee_name)
            /\ Head(lookup).has_different_overtime_rate
         THEN Head(lookup).overtime_rate
         ELSE LookupCaseInsensitive(employee_name, Tail(lookup))

LookupOvertimeRate(employee_name, overtime_data) ==
    LET lookup == IF overtime_data.has_lookup THEN overtime_data.lookup ELSE <<>>
        exact == {k \in 1..Len(lookup) : lookup[k].name = employee_name}
    IN IF \E k \in exact : lookup[k].has_different_overtime_rate
       THEN lookup[CHOOSE k \in exact : TRUE].overtime_rate
       ELSE LookupCaseInsensitive(employee_name, lookup)

\* mutant: the membership test is inverted
RegionUnknownInverted(region_name, valid_regions) ==
    valid_regions.given /\ region_name \in valid_regions.regions

\* valid_regions is not None and region_name not in valid_regions
RegionUnknown(region_name, valid_regions) ==
    valid_regions.given /\ region_name \notin valid_regions.regions

\* DailyEntry(...): __post_init__ validates (models.py 43-45)
NewDailyEntry(entry_date, region_name, hours, hour_type, overtime_rate, original_region, region_valid) ==
    IF DailyEntryValid(hours, region_name, overtime_rate)
    THEN Returned([entry_date |-> entry_date, region_name |-> region_name,
                   hours |-> hours, hour_type |-> hour_type,
                   overtime_rate |-> overtime_rate,
                   original_region |-> original_region,
                   region_valid |-> region_valid])
    ELSE Raises

\* _create_daily_entry_from_site_data (305-349)
CreateDailyEntryFromSiteData(entry_data, overtime_data, employee_name, valid_regions) ==
    IF entry_data.hour_type \notin HourTypes THEN Raises
    ELSE LET overtime_rate ==
                 IF entry_data.hour_type = "OVERTIME"
                 THEN LookupOvertimeRate(employee_name, overtime_data)
                 ELSE NoValue
             unknown == RegionUnknown(entry_data.region_name, valid_regions)
         IN NewDailyEntry(entry_data.entry_date,
                          IF unknown THEN "Unknown" ELSE entry_data.region_name,
                          entry_data.hours, entry_data.hour_type, overtime_rate,
                          entry_data.region_name, ~unknown)

\* mutant: the travel entry keeps the date the reader gave it
CreateDailyEntryFromTravelDataKeepDate(entry_data, pay_period_end_date, valid_regions) ==
    LET unknown == RegionUnknown(entry_data.region_name, valid_regions)
    IN NewDailyEntry(entry_data.entry_date,
                     IF unknown THEN "Unknown" ELSE entry_data.region_name,
                     entry_data.hours, "TRAVEL", NoValue,
                     entry_data.region_name, ~unknown)

\* _create_daily_entry_from_travel_data (351-383)
CreateDailyEntryFromTravelData(entry_data, pay_period_end_date, valid_regions) ==
    LET unknown == RegionUnknown(entry_data.region_name, valid_regions)
    IN NewDailyEntry(IF YearIs1900(entry_data.entry_date)
                     THEN pay_period_end_date ELSE entry_data.entry_date,
                     IF unknown THEN "Unknown" ELSE entry_data.region_name,
                     entry_data.hours, "TRAVEL", NoValue,
                     entry_data.region_name, ~unknown)

\* position of canonical_name in consolidated_employees (a dict in insertion
\* order), 0 when absent
EmployeeIndex(consolidated, canonical_name) ==
    IF \E k \in 1..Len(consolidated) : consolidated[k].employee_name = canonical_name
    THEN CHOOSE k \in 1..Len(consolidated) :
             consolidated[k].employee_name = canonical_name
    ELSE 0

\* lines 90-94 / 110-114
RegisterEmployee(consolidated, canonical_name) ==
    IF EmployeeIndex(consolidated, canonical_name) # 0 THEN consolidated
    ELSE Append(consolidated,
                [employee_name |-> canonical_name, daily_entries |-> <<>>])

\* mutant: an entry equal to one the employee already has is not appended
AddDailyEntryOnce(st, canonical_name, daily_entry) ==
    LET k == EmployeeIndex(st.consolidated, canonical_name)
    IN IF daily_entry \in SeqRange(st.consolidated[k].daily_entries)
       THEN st
       ELSE [st EXCEPT !.consolidated[k].daily_entries = Append(@, daily_entry)]

\* lines 99-103 / 119-122: record an unknown region, then append the entry
AddDailyEntry(st, canonical_name, daily_entry) ==
    LET k == EmployeeIndex(st.consolidated, canonical_name)
        tracked ==
            IF daily_entry.region_valid THEN st
            ELSE [st EXCEPT
                    !.unknown_regions = @ \cup {daily_entry.original_region},
                    !.unknown_region_entries =
                        Append(@, [employee_name |-> canonical_name,
                                   original_region |-> daily_entry.original_region,
                                   entry_date |-> daily_entry.entry_date,
                                   hours |-> daily_entry.hours])]
    IN [tracked EXCEPT !.consolidated[k].daily_entries = Append(@, daily_entry)]

\* the inner loops at 97-103 (site) and 117-122 (travel); a raising DailyEntry
\* ends the call
RECURSIVE ProcessEntries(_, _, _, _, _)
ProcessEntries(entries, kind, canonical_name, ctx, st) ==
    IF entries = <<>> \/ st.raised THEN st
    ELSE LET made == IF kind = "site"
                     THEN CreateDailyEntryFromSiteData(Head(entries), ctx.overtime_data,
                                                       canonical_name, ctx.valid_regions)
                     ELSE CreateDailyEntryFromTravelData(Head(entries),
                                                         ctx.pay_period_end_date,
                                                         ctx.valid_regions)
         IN IF ~made.ok THEN [st EXCEPT !.raised = TRUE]
            ELSE ProcessEntries(Tail(entries), kind, canonical_name, ctx,
                                AddDailyEntry(st, canonical_name, made.value))

\* the outer loops at 86-103 (site) and 106-122 (travel)
RECURSIVE ProcessEmployees(_, _, _, _)
ProcessEmployees(employees, kind, ctx, st) ==
    IF employees = <<>> \/ st.raised THEN st
    ELSE LET canonical_name == CanonicalEmployeeName(Head(employees).employee_name)
             registered ==
                 [st EXCEPT !.consolidated = RegisterEmployee(@, canonical_name)]
         IN ProcessEmployees(Tail(employees), kind, ctx,
                             ProcessEntries(Head(employees).entries, kind,
                                            canonical_name, ctx, registered))

\* list.sort(key=lambda x: x.entry_date), a stable sort (line 128)
InsertByDate(sorted, e) ==
    LET n == Cardinality({p \in 1..Len(sorted) : sorted[p].entry_date <= e.entry_date})
    IN SubSeq(sorted, 1, n) \o <<e>> \o SubSeq(sorted, n + 1, Len(sorted))

RECURSIVE SortByDate(_)
SortByDate(entries) ==
    IF entries = <<>> THEN <<>>
    ELSE InsertByDate(SortByDate(SubSeq(entries, 1, Len(entries) - 1)),
                      entries[Len(entries)])

\* employee_timesheets.sort(key=lambda x: x.employee_name) (line 141)
InsertByName(sorted, t) ==
    LET n == Cardinality({p \in 1..Len(sorted) :
                            NameRank(sorted[p].employee_name) <= NameRank(t.employee_name)})
    IN SubSeq(sorted, 1, n) \o <<t>> \o SubSeq(sorted, n + 1, Len(sorted))

\* mutant: the timesheets stay in the order the names were first seen
SortByNameNot(timesheets) == timesheets

RECURSIVE SortByName(_)
SortByName(timesheets) ==
    IF timesheets = <<>> THEN <<>>
    ELSE InsertByName(SortByName(SubSeq(timesheets, 1, Len(timesheets) - 1)),
                      timesheets[Len(timesheets)])

\* lines 124-138: one EmployeeTimesheet per consolidated employee
BuildTimesheets(consolidated, pay_period_end_date) ==
    [k \in 1..Len(consolidated) |->
        [employee_name |-> consolidated[k].employee_name,
         daily_entries |-> SortByDate(consolidated[k].daily_entries),
         pay_period_end_date |-> pay_period_end_date]]

TimesheetsValid(timesheets) ==
    \A k \in 1..Len(timesheets) :
        EmployeeTimesheetValid(timesheets[k].employee_name, timesheets[k].daily_entries,
                               timesheets[k].pay_period_end_date)

\* The outcome of a consolidate call: ok/value as for Returned, `tracked` tells
\* whether lines 70-71 (the reset of the unknown-region records) were reached, and
\* the unknown-region records are those the call left on the consolidator.
ConsolidateOutcome(ok, value, tracked, st) ==
    [ok |-> ok, value |-> value, tracked |-> tracked,
     unknown_regions |-> st.unknown_regions,
     unknown_region_entries |-> st.unknown_region_entries]

NoPayroll == <<>>

\* DataConsolidator.consolidate (27-150)
Consolidate(site_data, travel_data, overtime_data, valid_regions) ==
    LET empty == [raised |-> FALSE, unknown_regions |-> {},
                  unknown_region_entries |-> <<>>, consolidated |-> <<>>]
    IN IF ~ValidateInputData(site_data, travel_data, overtime_data)
       THEN ConsolidateOutcome(FALSE, NoPayroll, FALSE, empty)
       ELSE
       LET pay_period_end_date == AuthoritativeEndDate(site_data)
       IN IF ~ValidateDateRanges(site_data, travel_data)
          THEN ConsolidateOutcome(FALSE, NoPayroll, TRUE, empty)
          ELSE
          LET ctx == [overtime_data |-> overtime_data, valid_regions |-> valid_regions,
                      pay_period_end_date |-> pay_period_end_date]
              site_done == ProcessEmployees(site_data.employees, "site", ctx, empty)
              st == ProcessEmployees(travel_data.employees, "travel", ctx, site_done)
              timesheets == BuildTimesheets(st.consolidated, pay_period_end_date)
              sorted == SortByName(timesheets)
          IN IF st.raised \/ ~TimesheetsValid(timesheets) \/ sorted = <<>>
                \/ ~PayrollDataValid(sorted, pay_period_end_date)
             THEN ConsolidateOutcome(FALSE, NoPayroll, TRUE, st)
             ELSE ConsolidateOutcome(TRUE,
                      [employee_timesheets |-> sorted,
                       pay_period_end_date |-> pay_period_end_date], TRUE, st)

\* get_unknown_region_report (413-427): unknown_regions is sorted([r for r in
\* self.unknown_regions if r]), here as the set of its elements
UnknownRegionReport(unknown_regions, unknown_region_entries) ==
    [unknown_regions |-> {r \in unknown_regions : r # ""},
     unknown_region_entries |->
        [k \in 1..Len(unknown_region_entries) |->
            [unknown_region_entries[k] EXCEPT !.entry_date = IsoFormat(@)]]]

\* mutant: the hours of an "Unknown" entry are exported as they are
ExportEntryTrueHours(entry) ==
    [entry_date |-> IsoFormat(entry.entry_date),
     region_name |-> entry.region_name,
     hours |-> entry.hours,
     hour_type |-> entry.hour_type,
     overtime_rate |-> entry.overtime_rate]

\* to_target_json_format (563-611)
ExportEntry(entry) ==
    [entry_date |-> IsoFormat(entry.entry_date),
     region_name |-> entry.region_name,
     hours |-> IF entry.region_name = "Unknown" THEN 0 ELSE entry.hours,
     hour_type |-> entry.hour_type,
     overtime_rate |-> entry.overtime_rate]

ExportKey(entry_dict) ==
    <<entry_dict.entry_date, entry_dict.region_name, entry_dict.hours,
      entry_dict.hour_type>>

\* mutant: `seen` is never filled
RECURSIVE DedupEntriesKeepAll(_, _)
DedupEntriesKeepAll(daily_entries, seen) ==
    IF daily_entries = <<>> THEN <<>>
    ELSE <<[entry_date |-> IsoFormat(Head(daily_entries).entry_date),
            region_name |-> Head(daily_entries).region_name,
            hours |-> IF Head(daily_entries).region_name = "Unknown" THEN 0
                      ELSE Head(daily_entries).hours,
            hour_type |-> Head(daily_entries).hour_type,
            overtime_rate |-> Head(daily_entries).overtime_rate]>>
         \o DedupEntriesKeepAll(Tail(daily_entries), seen)

\* lines 581-600: skip an entry whose key was seen
RECURSIVE DedupEntries(_, _)
DedupEntries(daily_entries, seen) ==
    IF daily_entries = <<>> THEN <<>>
    ELSE LET entry_dict == ExportEntry(Head(daily_entries))
             key == ExportKey(entry_dict)
         IN IF key \in seen THEN DedupEntries(Tail(daily_entries), seen)
            ELSE <<entry_dict>> \o DedupEntries(Tail(daily_entries), seen \cup {key})

ToTargetJsonFormat(payroll_data) ==
    [pay_period_end_date |-> IsoFormat(payroll_data.pay_period_end_date),
     employees |->
        [k \in 1..Len(payroll_data.employee_timesheets) |->
            [employee_name |-> payroll_data.employee_timesheets[k].employee_name,
             daily_entries |->
                DedupEntries(payroll_data.employee_timesheets[k].daily_entries, {})]]]

(***************************************************************************)
(* Inputs of the capping specification                                     *)
(***************************************************************************)
MaxCapEntries == 3      \* entries in the whole site file

MaxCapEmployees == 2    \* employee records in the site file

CapDays == {1, 2}

CapHours == {40, 45}

CapHourTypes == {"REGULAR", "OVERTIME"}

CapEntry == [entry_date : CapDays, region_name : {"North"}, hours : CapHours,
             hour_type : CapHourTypes]

CapNames == <<"Ann Lee", "Bob Ray", "Cy Poe", "Di Fox">>

\* how many entries each of n employee records holds, `total` at most together
LenVectors(n, total) == {lens \in [1..n -> 0..total] : SumSeq(lens) <= total}

Offset(lens, i) == SumSeq(SubSeq(lens, 1, i - 1))

\* the employee records of a parsed file: names[i] with lens[i] entries of flat
EmployeeRecords(names, lens, flat) ==
    [i \in 1..Len(names) |->
        [employee_name |-> names[i],
         entries |-> SubSeq(flat, Offset(lens, i) + 1, Offset(lens, i) + lens[i])]]

CapIdle ==
    /\ cap_pc = "idle"
    /\ site_in = <<>>
    /\ site_out = <<>>
    /\ temp_parsed_data = <<>>
    /\ temp_validation_result = <<>>

EntryIdle == entry_pc = "idle" /\ entry_in = <<>> /\ entry_out = <<>>

MatchIdle ==
    /\ m_pc = "idle"
    /\ xero_employees = <<>>
    /\ employee_lookup = <<>>
    /\ match_cache = <<>>
    /\ confirmed = {}
    /\ dropped = <<>>
    /\ calls = 0
    /\ match_call = <<>>
    /\ val_in = <<>>
    /\ val_out = <<>>

BuildIdle == build_pc = "idle" /\ build_in = <<>> /\ build_out = <<>>

ParseIdle == parse_pc = "idle" /\ parse_in = <<>> /\ parse_out = <<>>

ConsIdle ==
    /\ cons_pc = "idle"
    /\ cons_in = <<>>
    /\ cons_out = <<>>
    /\ export_out = <<>>
    /\ report_out = <<>>
    /\ ts_in = <<>>
    /\ ts_out = <<>>
    /\ cons_calls = 0

CapInit ==
    /\ cap_pc = "start"
    /\ \E m \in 0..MaxCapEmployees :
         \E lens \in LenVectors(m, MaxCapEntries) :
           \E flat \in [1..SumSeq(lens) -> CapEntry] :
             site_in = EmployeeRecords(SubSeq(CapNames, 1, m), lens, flat)
    /\ site_out = <<>>
    /\ temp_parsed_data = <<>>
    /\ temp_validation_result = <<>>
    /\ ConsIdle
    /\ EntryIdle
    /\ MatchIdle
    /\ BuildIdle
    /\ ParseIdle

CapRegularHours ==
    /\ cap_pc = "start"
    /\ site_out' = cap_regular_hours_in_parsed_data(site_in)
    /\ cap_pc' = "capped"
    /\ UNCHANGED <<site_in, temp_parsed_data, temp_validation_result, consVars,
                 entryVars, matchVars, buildVars, parseVars>>

SpecCap == CapInit /\ [][CapRegularHours]_vars

RegularTotal(entries) == HoursAt(entries, RegularIdx(entries))

\* C1: after capping, every employee that has an OVERTIME entry has a REGULAR total
\* equal to min(total before capping, 40).
C1_CapToForty ==
    cap_pc = "capped" =>
        \A i \in 1..Len(site_in) :
            HasOvertimeEntries(site_in[i].entries) =>
                RegularTotal(site_out[i].entries)
                    = Min(RegularTotal(site_in[i].entries), RegularCap)

C1_Witness ==
    /\ cap_pc = "capped"
    /\ \E i \in 1..Len(site_in) :
          /\ HasOvertimeEntries(site_in[i].entries)
          /\ RegularTotal(site_in[i].entries) = 45
          /\ RegularTotal(site_out[i].entries) = 40

\* C9: an employee without OVERTIME entry keeps its entry list unchanged, whatever
\* its REGULAR total.
C9_NoOvertimeNoCap ==
    cap_pc = "capped" =>
        \A i \in 1..Len(site_in) :
            ~(\E k \in 1..Len(site_in[i].entries) :
                  site_in[i].entries[k].hour_type = "OVERTIME")
                => site_out[i] = site_in[i]

C9_Witness ==
    /\ cap_pc = "capped"
    /\ \E i \in 1..Len(site_in) :
          /\ \A k \in 1..Len(site_in[i].entries) :
                site_in[i].entries[k].hour_type = "REGULAR"
          /\ RegularTotal(site_in[i].entries) > 40
          /\ site_out[i] = site_in[i]

(***************************************************************************)
(* models.py: from_dict                                                    *)
(***************************************************************************)
\* date.fromisoformat() of <<year, month, day>>
ParseIso(t) ==
    LET lengths == MonthLengths(t[1])
        before == SumSeq(SubSeq(lengths, 1, t[2] - 1))
    IN (IF t[1] = 1900 THEN SentinelDate
        ELSE IF t[1] = 2024 THEN 0 ELSE DaysIn2024) + before + t[3] - 1

\* DailyEntry.from_dict (models.py 76-90)
DailyEntryFromDict(data) ==
    IF data.hour_type \notin HourTypes THEN Raises
    ELSE NewDailyEntry(ParseIso(data.entry_date), data.region_name, data.hours,
                       data.hour_type, data.overtime_rate, data.original_region,
                       data.region_valid)

\* EmployeeTimesheet.from_dict (models.py 164-173)
EmployeeTimesheetFromDict(data) ==
    LET made == [k \in 1..Len(data.daily_entries) |->
                     DailyEntryFromDict(data.daily_entries[k])]
        daily_entries == [k \in 1..Len(made) |-> made[k].value]
        pay_period_end_date == ParseIso(data.pay_period_end_date)
    IN IF \E k \in 1..Len(made) : ~made[k].ok THEN Raises
       ELSE IF ~EmployeeTimesheetValid(data.employee_name, daily_entries,
                                       pay_period_end_date)
       THEN Raises
       ELSE Returned([employee_name |-> data.employee_name,
                      daily_entries |-> daily_entries,
                      pay_period_end_date |-> pay_period_end_date])

(***************************************************************************)
(* Inputs of the consolidation specification                               *)
(***************************************************************************)
MaxConsEntries == 2     \* entries in the site and travel files together

ConsEndDate == 10       \* the pay-period end date the site file declares

ConsSiteDays == {5, 12}

ConsTravelDays == {SentinelDate, 12}

ConsRegions == {"North", "South", ""}

ConsSiteEntry == [entry_date : ConsSiteDays, region_name : ConsRegions, hours : {8},
                  hour_type : {"REGULAR", "OVERTIME"}]

ConsTravelEntry == [entry_date : ConsTravelDays, region_name : ConsRegions,
                    hours : {4, 8}, hour_type : {"TRAVEL"}]

\* the employee records of the two files, by name
ConsLayouts ==
    { [site |-> <<>>, travel |-> <<>>],
      [site |-> <<"Ann Lee">>, travel |-> <<>>],
      [site |-> <<>>, travel |-> <<"Bob Ray">>],
      [site |-> <<"Ann Lee">>, travel |-> <<"Ann Lee">>],
      [site |-> <<"Bob Ray", "Ann Lee">>, travel |-> <<>>],
      [site |-> <<"Ann Lee", "Ann Lee">>, travel |-> <<"Bob Ray">>] }

ConsValidRegions == { [given |-> FALSE, regions |-> {}],
                      [given |-> TRUE, regions |-> {"North"}] }

ConsOvertimeData ==
    [file_type |-> "overtime_rates", has_lookup |-> TRUE,
     lookup |-> << [name |-> "ann lee", has_different_overtime_rate |-> TRUE,
                    overtime_rate |-> {15}],
                   [name |-> "Bob Ray", has_different_overtime_rate |-> FALSE,
                    overtime_rate |-> NoValue] >>]

ConsInput(se, te, vr) ==
    [site_data |-> [file_type |-> "site_timesheet", has_employees |-> TRUE,
                    employees |-> se, has_end_date |-> TRUE,
                    pay_period_end_date |-> ConsEndDate],
     travel_data |-> [file_type |-> "travel_time", has_employees |-> TRUE,
                      employees |-> te],
     overtime_data |-> ConsOvertimeData,
     valid_regions |-> vr]

ConsInit ==
    /\ cons_pc = "start"
    /\ \E layout \in ConsLayouts, vr \in ConsValidRegions :
         \E slens \in LenVectors(Len(layout.site), MaxConsEntries) :
           \E tlens \in LenVectors(Len(layout.travel),
                                   MaxConsEntries - SumSeq(slens)) :
             \E sflat \in [1..SumSeq(slens) -> ConsSiteEntry],
                tflat \in [1..SumSeq(tlens) -> ConsTravelEntry] :
               cons_in = ConsInput(EmployeeRecords(layout.site, slens, sflat),
                                   EmployeeRecords(layout.travel, tlens, tflat), vr)
    /\ cons_out = <<>>
    /\ export_out = <<>>
    /\ report_out = <<>>
    /\ ts_in = <<>>
    /\ ts_out = <<>>
    /\ cons_calls = 0
    /\ CapIdle
    /\ EntryIdle
    /\ MatchIdle
    /\ BuildIdle
    /\ ParseIdle

\* consolidator.consolidate(site_data, travel_data, overtime_data, valid_regions)
ConsolidateCall ==
    /\ cons_pc = "start"
    /\ cons_out' = Consolidate(cons_in.site_data, cons_in.travel_data,
                               cons_in.overtime_data, cons_in.valid_regions)
    /\ cons_pc' = "consolidated"
    /\ cons_calls' = cons_calls + 1
    /\ UNCHANGED <<cons_in, export_out, report_out, ts_in, ts_out,
                 capVars, entryVars, matchVars, buildVars, parseVars>>

\* consolidator.to_target_json_format(consolidated)
ExportCall ==
    /\ cons_pc = "consolidated"
    /\ cons_out.ok
    /\ export_out' = ToTargetJsonFormat(cons_out.value)
    /\ cons_pc' = "exported"
    /\ UNCHANGED <<cons_in, cons_out, report_out, ts_in, ts_out, cons_calls,
                 capVars, entryVars, matchVars, buildVars, parseVars>>

\* consolidator.get_unknown_region_report()
ReportCall ==
    /\ cons_pc = "exported"
    /\ report_out' = UnknownRegionReport(cons_out.unknown_regions,
                                         cons_out.unknown_region_entries)
    /\ cons_pc' = "reported"
    /\ UNCHANGED <<cons_in, cons_out, export_out, ts_in, ts_out, cons_calls,
                 capVars, entryVars, matchVars, buildVars, parseVars>>

\* the dict of one site employee record, as EmployeeTimesheet.to_dict writes it
TimesheetDict(employee_data, pay_period_end_date) ==
    [employee_name |-> employee_data.employee_name,
     daily_entries |->
        [k \in 1..Len(employee_data.entries) |->
            [entry_date |-> IsoFormat(employee_data.entries[k].entry_date),
             region_name |-> employee_data.entries[k].region_name,
             hours |-> employee_data.entries[k].hours,
             hour_type |-> employee_data.entries[k].hour_type,
             overtime_rate |-> NoValue,
             original_region |-> employee_data.entries[k].region_name,
             region_valid |-> TRUE]],
     pay_period_end_date |-> IsoFormat(pay_period_end_date)]

\* EmployeeTimesheet.from_dict(data) on the dict of one site employee record
FromDictCall ==
    /\ cons_pc = "start"
    /\ cons_in.site_data.has_end_date
    /\ \E i \in 1..Len(cons_in.site_data.employees) :
          /\ ts_in' = TimesheetDict(cons_in.site_data.employees[i],
                                    cons_in.site_data.pay_period_end_date)
          /\ ts_out' = EmployeeTimesheetFromDict(ts_in')
    /\ cons_pc' = "from_dict"
    /\ UNCHANGED <<cons_in, cons_out, export_out, report_out, cons_calls,
                 capVars, entryVars, matchVars, buildVars, parseVars>>

ConsNext == ConsolidateCall \/ ExportCall \/ ReportCall \/ FromDictCall

SpecCons == ConsInit /\ [][ConsNext]_vars

(***************************************************************************)
(* Claims about consolidation, the models and the export                   *)
(***************************************************************************)
\* the region texts of the entries supplied for one employee name, site file
\* first, as a sequence
RECURSIVE InputRegionsOf(_, _)
InputRegionsOf(employees, name) ==
    IF employees = <<>> THEN <<>>
    ELSE (IF Head(employees).employee_name = name
          THEN [k \in 1..Len(Head(employees).entries) |->
                    Head(employees).entries[k].region_name]
          ELSE <<>>) \o InputRegionsOf(Tail(employees), name)

InputRegions(name) ==
    InputRegionsOf(cons_in.site_data.employees, name)
        \o InputRegionsOf(cons_in.travel_data.employees, name)

CountOf(s, x) == Cardinality({k \in 1..Len(s) : s[k] = x})

InputNames ==
    {cons_in.site_data.employees[k].employee_name :
        k \in 1..Len(cons_in.site_data.employees)}
    \cup {cons_in.travel_data.employees[k].employee_name :
            k \in 1..Len(cons_in.travel_data.employees)}

\* Region quarantine; listEmpty tells whether the report has to list an empty
\* unknown region text too.
QuarantineHolds(listEmpty) ==
    (cons_pc = "reported" /\ cons_in.valid_regions.given) =>
        LET valid == cons_in.valid_regions.regions
            sheets == cons_out.value.employee_timesheets
        IN /\ InputNames = {sheets[t].employee_name : t \in 1..Len(sheets)}
           /\ \A t \in 1..Len(sheets) :
                LET out == sheets[t].daily_entries
                    regions == InputRegions(sheets[t].employee_name)
                IN /\ Len(out) = Len(regions)
                   /\ \A r \in SeqRange(regions) :
                        CountOf([k \in 1..Len(out) |-> out[k].original_region], r)
                            = CountOf(regions, r)
                   /\ \A k \in 1..Len(out) :
                        IF out[k].original_region \in valid
                        THEN /\ out[k].region_name = out[k].original_region
                             /\ out[k].region_valid
                        ELSE /\ out[k].region_name = "Unknown"
                             /\ ~out[k].region_valid
                             /\ (listEmpty \/ out[k].original_region # "")
                                  => out[k].original_region
                                        \in report_out.unknown_regions

\* C2 (as stated): every entry whose region is not in the valid-region set comes
\* out as "Unknown", region_valid = FALSE, original_region = the input text, and
\* that text is listed in the unknown-region report; valid entries keep their
\* region.
C2_QuarantineAsStated == QuarantineHolds(TRUE)

\* C2 (amended): as stated, except that the report lists the region text only
\* when it is non-empty (an empty region text is quarantined but not listed).
C2_Quarantine == QuarantineHolds(FALSE)

C2_Witness ==
    /\ cons_pc = "reported"
    /\ cons_in.valid_regions.given
    /\ \E t \in 1..Len(cons_out.value.employee_timesheets) :
         LET out == cons_out.value.employee_timesheets[t].daily_entries
         IN /\ \E k \in 1..Len(out) :
                 /\ out[k].original_region = "South"
                 /\ out[k].region_name = "Unknown"
                 /\ ~out[k].region_valid
            /\ \E k \in 1..Len(out) :
                 out[k].region_name = "North" /\ out[k].region_valid
    /\ "South" \in report_out.unknown_regions

\* ISO dates compared as the strings compare
IsoAfter(a, b) ==
    \/ a[1] > b[1]
    \/ a[1] = b[1] /\ a[2] > b[2]
    \/ a[1] = b[1] /\ a[2] = b[2] /\ a[3] > b[3]

TimesheetWellFormed(t) ==
    /\ t.daily_entries # <<>>
    /\ \A k \in 1..Len(t.daily_entries) :
          t.daily_entries[k].entry_date <= t.pay_period_end_date

\* C3: constructing an EmployeeTimesheet with no entries or with an entry dated
\* after pay_period_end_date raises; every EmployeeTimesheet returned by
\* consolidate or from_dict has an entry and no entry after its end date.
C3_TimesheetInvariant ==
    /\ (cons_pc \in {"consolidated", "exported", "reported"} /\ cons_out.ok) =>
          \A t \in 1..Len(cons_out.value.employee_timesheets) :
              TimesheetWellFormed(cons_out.value.employee_timesheets[t])
    /\ cons_pc = "from_dict" =>
          /\ (\/ ts_in.daily_entries = <<>>
              \/ \E k \in 1..Len(ts_in.daily_entries) :
                    IsoAfter(ts_in.daily_entries[k].entry_date,
                             ts_in.pay_period_end_date))
                => ~ts_out.ok
          /\ ts_out.ok => TimesheetWellFormed(ts_out.value)

C3_Witness ==
    /\ cons_pc = "from_dict"
    /\ \A k \in 1..Len(ts_in.daily_entries) : ts_in.daily_entries[k].region_name # ""
    /\ \E k \in 1..Len(ts_in.daily_entries) :
          IsoAfter(ts_in.daily_entries[k].entry_date, ts_in.pay_period_end_date)
    /\ ~ts_out.ok

\* the (date, region, hour type, hours) tuple of an exported entry dict
ExportedTuple(d) == <<d.entry_date, d.region_name, d.hour_type, d.hours>>

\* the positions of a timesheet's entries whose exported tuple occurs at no
\* earlier position
FirstSeen(daily_entries) ==
    PositionsIn(Len(daily_entries),
                {k \in 1..Len(daily_entries) :
                    \A j \in 1..(k - 1) :
                        ExportedTuple(ExportEntry(daily_entries[j]))
                            # ExportedTuple(ExportEntry(daily_entries[k]))})

EntryDays == {SentinelDate, 0}

EntryRegions == {"", " ", "North", "Unknown"}

EntryHours == {-1, 0, 1, 24, 25}

EntryRates == {NoValue, {-1}, {0}, {15}}

EntryInit ==
    /\ entry_pc = "start"
    /\ entry_in \in [entry_date : EntryDays, region_name : EntryRegions,
                     hours : EntryHours, hour_type : HourTypes,
                     overtime_rate : EntryRates]
    /\ entry_out = <<>>
    /\ CapIdle
    /\ ConsIdle
    /\ MatchIdle
    /\ BuildIdle
    /\ ParseIdle

\* DailyEntry(entry_date, region_name, hours, hour_type, overtime_rate): the
\* other fields keep their defaults (original_region = None, region_valid = True)
DailyEntryCall ==
    /\ entry_pc = "start"
    /\ entry_out' = NewDailyEntry(entry_in.entry_date, entry_in.region_name,
                                  entry_in.hours, entry_in.hour_type,
                                  entry_in.overtime_rate, NoValue, TRUE)
    /\ entry_pc' = "constructed"
    /\ UNCHANGED <<entry_in, capVars, consVars, matchVars, buildVars, parseVars>>

SpecEntry == EntryInit /\ [][DailyEntryCall]_vars

\* C4 (as stated): constructing a DailyEntry succeeds exactly when
\* 0 < hours <= 24 and the region name is not empty or blank.
C4_DailyEntryAsStated ==
    entry_pc = "constructed" =>
        (entry_out.ok <=> /\ 0 < entry_in.hours
                          /\ entry_in.hours <= 24
                          /\ entry_in.region_name \notin {"", " "})

\* C4 (amended): constructing a DailyEntry succeeds exactly when
\* 0 <= hours <= 24, the region name is not empty or blank, and the overtime
\* rate is absent or not negative; hours = 0 is accepted.
C4_DailyEntryBounds ==
    entry_pc = "constructed" =>
        (entry_out.ok <=> /\ 0 <= entry_in.hours
                          /\ entry_in.hours <= 24
                          /\ entry_in.region_name \notin {"", " "}
                          /\ \A r \in entry_in.overtime_rate : r >= 0)

C4_Witness ==
    /\ entry_pc = "constructed"
    /\ entry_in.hours = 0
    /\ entry_in.region_name = "North"
    /\ entry_out.ok
    /\ entry_out.value.hours = 0

(***************************************************************************)
(* Python dicts, as sequences of key/value pairs in insertion order        *)
(***************************************************************************)
DictKeys(d) == {d[k].key : k \in 1..Len(d)}

DictGet(d, key) == d[CHOOSE k \in 1..Len(d) : d[k].key = key].value

DictPut(d, key, value) ==
    IF key \in DictKeys(d)
    THEN [k \in 1..Len(d) |->
            IF d[k].key = key THEN [key |-> key, value |-> value] ELSE d[k]]
    ELSE Append(d, [key |-> key, value |-> value])

(***************************************************************************)
(* validation.py: MatchResult and EmployeeMatcher.  Scores are counted in  *)
(* hundredths of a point.                                                  *)
(***************************************************************************)
AutoMatchThreshold == 9250      \* FUZZY_MATCH_THRESHOLD = 92.5

SuggestionThreshold == 6000     \* FUZZY_MATCH_CUTOFF = 60

MediumThreshold == 7000

LowThreshold == 5000

LastNameThreshold == 6000

ExactScore == 10000

MaxSuggestions == 5

Scores(ratio_score, partial_score, token_sort_score, token_set_score, last_name_score) ==
    [ratio_score |-> ratio_score, partial_score |-> partial_score,
     token_sort_score |-> token_sort_score, token_set_score |-> token_set_score,
     last_name_score |-> last_name_score]

\* rapidfuzz's fuzz.ratio, fuzz.partial_ratio, fuzz.token_sort_ratio and
\* fuzz.token_set_ratio of the two normalised names, and fuzz.ratio of their
\* last words (0 when a name has one word), lines 564-577, rounded down to
\* hundredths, for the names the model draws
FuzzScores(name_norm, emp_name_norm) ==
    CASE name_norm = "john smith" /\ emp_name_norm = "john smith" ->
            Scores(10000, 10000, 10000, 10000, 10000)
      [] name_norm = "john smith" /\ emp_name_norm = "ann lee" ->
            Scores(2352, 3333, 2352, 2352, 0)
      [] name_norm = "jon smith" /\ emp_name_norm = "john smith" ->
            Scores(9473, 8888, 9473, 9473, 10000)
      [] name_norm = "jon smith" /\ emp_name_norm = "ann lee" ->
            Scores(2500, 3636, 2500, 2500, 0)
      [] name_norm = "john doe" /\ emp_name_norm = "john smith" ->
            Scores(5555, 7692, 4444, 6666, 0)
      [] name_norm = "john doe" /\ emp_name_norm = "ann lee" ->
            Scores(4000, 5000, 1333, 1333, 3333)
      [] name_norm = "jack smyth" /\ emp_name_norm = "john smith" ->
            Scores(6000, 6250, 6000, 6000, 8000)
      [] name_norm = "jack smyth" /\ emp_name_norm = "ann lee" ->
            Scores(2352, 3333, 2352, 2352, 0)
      [] name_norm = "smithers" /\ emp_name_norm = "john smith" ->
            Scores(5555, 7692, 5555, 5555, 0)
      [] name_norm = "smithers" /\ emp_name_norm = "ann lee" ->
            Scores(1333, 2000, 1333, 1333, 0)
      [] name_norm = "bo smart" /\ emp_name_norm = "john smith" ->
            Scores(5555, 6250, 5555, 5555, 6000)
      [] name_norm = "bo smart" /\ emp_name_norm = "ann lee" ->
            Scores(1333, 2000, 1333, 1333, 0)
      [] name_norm = "john lee" /\ emp_name_norm = "john smith" ->
            Scores(5555, 7692, 5555, 6666, 0)
      [] name_norm = "john lee" /\ emp_name_norm = "ann lee" ->
            Scores(6666, 8333, 6666, 6666, 10000)

\* max(ratio_score, partial_score, token_sort_score, token_set_score)
BestScore(s) ==
    Max(Max(s.ratio_score, s.partial_score),
        Max(s.token_sort_score, s.token_set_score))

\* MatchResult(...) (validation.py 107-121); matched_name and matched_id are
\* Optional: {} is None
MatchResult(input_name, matched_name, matched_id, confidence, confidence_score, suggestions, requires_confirmation) ==
    [input_name |-> input_name, matched_name |-> matched_name,
     matched_id |-> matched_id, confidence |-> confidence,
     confidence_score |-> confidence_score, suggestions |-> suggestions,
     requires_confirmation |-> requires_confirmation]

NoMatchResult(input_name) ==
    MatchResult(input_name, NoValue, NoValue, "NO_MATCH", 0, <<>>, TRUE)

\* MatchResult.is_automatic_match (123-126)
IsAutomaticMatch(result) ==
    result.confidence = "HIGH" /\ ~result.requires_confirmation

\* _build_lookup_tables (363-383): _employee_lookup by stripped name; the name
\* variations it also records are read by no lookup
RECURSIVE BuildLookupTables(_, _)
BuildLookupTables(employees, lookup) ==
    IF employees = <<>> THEN lookup
    ELSE LET employee == Head(employees)
             name == Strip(employee.name)
         IN IF employee.employee_id = "" \/ name = ""
            THEN BuildLookupTables(Tail(employees), lookup)
            ELSE BuildLookupTables(Tail(employees), DictPut(lookup, name, employee))

\* _find_exact_match (515-534): {} is None
FindExactMatch(name, lookup) ==
    LET insensitive == {k \in 1..Len(lookup) : Lower(lookup[k].key) = Lower(name)}
    IN IF name \in DictKeys(lookup) THEN {DictGet(lookup, name)}
       ELSE IF insensitive # {} THEN {lookup[MinOf(insensitive)].value}
       ELSE NoValue

\* lines 579-584: whether a roster entry with scores s becomes a candidate
CandidateAccepted(s, suggestion_threshold) ==
    LET token_based_strong == \/ s.token_set_score >= suggestion_threshold
                              \/ s.token_sort_score >= suggestion_threshold
        last_name_similar == s.last_name_score >= LastNameThreshold
    IN BestScore(s) >= suggestion_threshold
           /\ (token_based_strong \/ last_name_similar)

\* matches.sort(key=lambda x: x["score"], reverse=True), a stable sort
InsertByScore(sorted, m) ==
    LET n == Cardinality({p \in 1..Len(sorted) : sorted[p].score >= m.score})
    IN SubSeq(sorted, 1, n) \o <<m>> \o SubSeq(sorted, n + 1, Len(sorted))

RECURSIVE SortByScore(_)
SortByScore(matches) ==
    IF matches = <<>> THEN <<>>
    ELSE InsertByScore(SortByScore(SubSeq(matches, 1, Len(matches) - 1)),
                       matches[Len(matches)])

\* _find_fuzzy_matches (536-594)
FindFuzzyMatches(name, employees, suggestion_threshold) ==
    LET name_norm == Strip(Lower(name))
        accepted ==
            {k \in 1..Len(employees) :
                /\ employees[k].name # ""
                /\ employees[k].employee_id # ""
                /\ CandidateAccepted(
                       FuzzScores(name_norm, Strip(Lower(employees[k].name))),
                       suggestion_threshold)}
        idx == PositionsIn(Len(employees), accepted)
    IN SortByScore(
         [n \in 1..Len(idx) |->
            LET s == FuzzScores(name_norm, Strip(Lower(employees[idx[n]].name)))
            IN [name |-> employees[idx[n]].name,
                employee_id |-> employees[idx[n]].employee_id,
                score |-> BestScore(s),
                last_name_score |-> s.last_name_score]])

\* mutant: every score below the auto-match threshold is a MEDIUM match
ConfidenceOfTwoTiers(confidence_score, auto_match_threshold) ==
    IF confidence_score >= auto_match_threshold THEN "HIGH" ELSE "MEDIUM"

\* lines 480-492
ConfidenceOf(confidence_score, auto_match_threshold) ==
    IF confidence_score >= auto_match_threshold THEN "HIGH"
    ELSE IF confidence_score >= MediumThreshold THEN "MEDIUM"
    ELSE IF confidence_score >= LowThreshold THEN "LOW"
    ELSE "NO_MATCH"

\* lines 476-510: the result built from a non-empty candidate list
FuzzyResult(timesheet_name, require_confirmation, fuzzy_matches) ==
    LET best_match == fuzzy_matches[1]
        confidence == ConfidenceOf(best_match.score, AutoMatchThreshold)
        top == SubSeq(fuzzy_matches, 1, Min(MaxSuggestions, Len(fuzzy_matches)))
        kept == PositionsIn(Len(top), {k \in 1..Len(top) :
                                          top[k].score >= SuggestionThreshold})
    IN MatchResult(timesheet_name,
                   IF confidence # "NO_MATCH" THEN {best_match.name} ELSE NoValue,
                   IF confidence # "NO_MATCH" THEN {best_match.employee_id}
                   ELSE NoValue,
                   confidence, best_match.score,
                   [n \in 1..Len(kept) |->
                       [name |-> top[kept[n]].name,
                        employee_id |-> top[kept[n]].employee_id,
                        score |-> top[kept[n]].score]],
                   IF confidence = "HIGH" THEN require_confirmation ELSE TRUE)

\* lines 450-510: the result of a lookup that missed the cache
ComputeMatch(timesheet_name, require_confirmation, employees, lookup) ==
    LET exact_match == FindExactMatch(timesheet_name, lookup)
    IN IF exact_match # NoValue
       THEN LET employee == CHOOSE e \in exact_match : TRUE
            IN MatchResult(timesheet_name, {employee.name}, {employee.employee_id},
                           "HIGH", ExactScore, <<>>, FALSE)
       ELSE LET fuzzy_matches == FindFuzzyMatches(timesheet_name, employees,
                                                  SuggestionThreshold)
            IN IF fuzzy_matches = <<>> THEN NoMatchResult(timesheet_name)
               ELSE FuzzyResult(timesheet_name, require_confirmation, fuzzy_matches)

\* match_employee (425-513): what it returns and the cache it leaves
MatchEmployeeOutcome(timesheet_name, require_confirmation, employees, lookup, cache) ==
    IF timesheet_name = "" \/ Strip(timesheet_name) = ""
    THEN [result |-> NoMatchResult(timesheet_name), cache |-> cache]
    ELSE LET name == Strip(timesheet_name)
             cache_key == <<name, require_confirmation>>
         IN IF cache_key \in DictKeys(cache)
            THEN [result |-> DictGet(cache, cache_key), cache |-> cache]
            ELSE LET result == ComputeMatch(name, require_confirmation,
                                            employees, lookup)
                 IN [result |-> result, cache |-> DictPut(cache, cache_key, result)]

\* confirm_match (653-686): what it returns and the cache it leaves
ConfirmMatchOutcome(timesheet_name, confirmed_employee_id, employees, cache) ==
    LET found == {k \in 1..Len(employees) :
                    employees[k].employee_id = confirmed_employee_id}
    IN IF found = {} \/ confirmed_employee_id = ""
       THEN [result |-> FALSE, cache |-> cache]
       ELSE LET confirmed_employee == employees[MinOf(found)]
            IN [result |-> TRUE,
                cache |-> DictPut(cache, <<timesheet_name, TRUE>>,
                                  MatchResult(timesheet_name,
                                              {confirmed_employee.name},
                                              {confirmed_employee_id},
                                              "HIGH", ExactScore, <<>>, FALSE))]

(***************************************************************************)
(* validate_against_xero (api_server.py 1005-1066)                         *)
(***************************************************************************)
NamesOf(employees) == {employees[k].employee_name : k \in 1..Len(employees)}

RegionsOf(employees) ==
    UNION {{employees[k].entries[j].region_name :
               j \in 1..Len(employees[k].entries)} : k \in 1..Len(employees)}

\* the loop at 1043-1050 over the set all_employees, with the matcher's cache
RECURSIVE MatchAll(_, _, _, _)
MatchAll(names, employees, lookup, st) ==
    IF names = {} THEN st
    ELSE LET employee == CHOOSE n \in names : TRUE
         IN IF employee = "" THEN MatchAll(names \ {employee}, employees, lookup, st)
            ELSE LET out == MatchEmployeeOutcome(employee, FALSE, employees,
                                                 lookup, st.cache)
                     matched == {n \in out.result.matched_name : n # ""}
                 IN MatchAll(names \ {employee}, employees, lookup,
                       [cache |-> out.cache,
                        valid_employees |->
                            st.valid_employees
                              \cup {[key |-> employee, value |-> n] : n \in matched},
                        unmapped_employees |->
                            IF matched # {} THEN st.unmapped_employees
                            ELSE st.unmapped_employees \cup {employee}])

\* The lists the function fills while it iterates over sets (valid_regions,
\* unmapped_*, warnings) are given as sets, and the dict valid_employees as the
\* set of its items: their order is the set iteration order.
ValidateAgainstXero(parsed_data, employees, xero_regions) ==
    LET site == parsed_data.site_data.employees
        travel == parsed_data.travel_data.employees
        all_regions == RegionsOf(site) \cup RegionsOf(travel)
        all_employees == NamesOf(site) \cup NamesOf(travel)
        valid_regions == {r \in all_regions : r # "" /\ r \in xero_regions}
        unmapped_regions == {r \in all_regions : r # "" /\ r \notin xero_regions}
        done == MatchAll(all_employees, employees, BuildLookupTables(employees, <<>>),
                         [cache |-> <<>>, valid_employees |-> {},
                          unmapped_employees |-> {}])
    IN [valid |-> TRUE,
        errors |-> <<>>,
        warnings |-> {[about |-> "Region", name |-> r] : r \in unmapped_regions}
                       \cup {[about |-> "Employee", name |-> n] :
                               n \in done.unmapped_employees},
        unmapped_regions |-> unmapped_regions,
        unmapped_employees |-> done.unmapped_employees,
        valid_regions |-> valid_regions,
        valid_employees |-> done.valid_employees,
        summary |-> [total_regions |-> Cardinality(all_regions),
                     valid_regions |-> Cardinality(valid_regions),
                     total_employees |-> Cardinality(all_employees),
                     valid_employees |-> Cardinality(done.valid_employees)]]

(***************************************************************************)
(* The matching specification: one EmployeeMatcher session, or one         *)
(* validate_against_xero call                                              *)
(***************************************************************************)
MaxCalls == 4           \* matcher calls in a session

MaxValEmployees == 2    \* employee records in the site file handed to validation

MatchNames == {"john smith", " John Smith ", "Jon Smith", "John Doe", "Jack Smyth",
               "Smithers", "Bo Smart", ""}

ConfirmNames == {"john smith", " John Smith ", "John Doe"}

EmployeeIds == {"E1", "E2", "E9"}

\* the rosters get_employees can return (xero_api_client.py 282-289: every
\* entry has an id and a stripped, non-empty name)
Rosters ==
    { << [employee_id |-> "E1", name |-> "John Smith"],
         [employee_id |-> "E2", name |-> "Ann Lee"] >>,
      << [employee_id |-> "E3", name |-> "John Smith"] >>,
      << [employee_id |-> "E2", name |-> "Ann Lee"] >> }

ValRegions == {"North", "South", ""}

ValEmployee ==
    {[employee_name |-> n, entries |-> <<[region_name |-> r]>>] :
        n \in MatchNames, r \in ValRegions}

ValTravel ==
    { <<>>,
      <<[employee_name |-> "John Doe", entries |-> <<[region_name |-> "South"]>>]>> }

ValXeroRegions == {"North"}

\* EmployeeMatcher() (331-349)
MatchInit ==
    /\ m_pc = "session"
    /\ xero_employees = <<>>
    /\ employee_lookup = <<>>
    /\ match_cache = <<>>
    /\ confirmed = {}
    /\ dropped = <<>>
    /\ calls = 0
    /\ match_call = [op |-> "__init__"]
    /\ val_in = <<>>
    /\ val_out = <<>>
    /\ CapIdle
    /\ ConsIdle
    /\ EntryIdle
    /\ BuildIdle
    /\ ParseIdle

\* mutant: the roster is replaced and the cache is kept
SetXeroEmployeesKeepCache(roster, cache) ==
    [xero_employees |-> roster,
     employee_lookup |-> BuildLookupTables(roster, <<>>),
     cache |-> cache]

\* set_xero_employees (351-361): the roster, the lookup table and the cache it
\* leaves
SetXeroEmployeesOutcome(roster, cache) ==
    [xero_employees |-> roster,
     employee_lookup |-> BuildLookupTables(roster, <<>>),
     cache |-> <<>>]

\* matcher.set_xero_employees(roster) (351-361)
SetXeroEmployees ==
    /\ m_pc = "session"
    /\ calls < MaxCalls
    /\ \E roster \in Rosters :
          LET out == SetXeroEmployeesOutcome(roster, match_cache)
          IN /\ xero_employees' = out.xero_employees
             /\ employee_lookup' = out.employee_lookup
             /\ match_cache' = out.cache
             /\ match_call' = [op |-> "set_xero_employees", xero_employees |-> roster]
    /\ dropped' = match_cache
    /\ confirmed' = {}
    /\ calls' = calls + 1
    /\ UNCHANGED <<m_pc, val_in, val_out, capVars, consVars, entryVars, buildVars, parseVars>>

\* matcher.match_employee(timesheet_name, require_confirmation)
MatchEmployee ==
    /\ m_pc = "session"
    /\ calls < MaxCalls
    /\ \E timesheet_name \in MatchNames, require_confirmation \in BOOLEAN :
          LET out == MatchEmployeeOutcome(timesheet_name, require_confirmation,
                                          xero_employees, employee_lookup,
                                          match_cache)
          IN /\ match_cache' = out.cache
             /\ match_call' = [op |-> "match_employee",
                               timesheet_name |-> timesheet_name,
                               require_confirmation |-> require_confirmation,
                               result |-> out.result]
    /\ calls' = calls + 1
    /\ UNCHANGED <<m_pc, xero_employees, employee_lookup, confirmed, dropped, val_in,
                   val_out,
                   capVars, consVars, entryVars, buildVars, parseVars>>

\* matcher.confirm_match(timesheet_name, confirmed_employee_id)
ConfirmMatch ==
    /\ m_pc = "session"
    /\ calls < MaxCalls
    /\ \E timesheet_name \in ConfirmNames, confirmed_employee_id \in EmployeeIds :
          LET out == ConfirmMatchOutcome(timesheet_name, confirmed_employee_id,
                                         xero_employees, match_cache)
          IN /\ match_cache' = out.cache
             /\ confirmed' = IF out.result THEN confirmed \cup {timesheet_name}
                             ELSE confirmed
             /\ match_call' = [op |-> "confirm_match",
                               timesheet_name |-> timesheet_name,
                               confirmed_employee_id |-> confirmed_employee_id,
                               result |-> out.result]
    /\ calls' = calls + 1
    /\ UNCHANGED <<m_pc, xero_employees, employee_lookup, dropped, val_in, val_out,
                   capVars, consVars, entryVars, buildVars, parseVars>>

\* validate_against_xero(parsed_data, xero_employees, xero_regions): it works on
\* a matcher of its own
ValidateCall ==
    /\ m_pc = "session"
    /\ calls = 0
    /\ \E n \in 0..MaxValEmployees, travel \in ValTravel, roster \in Rosters :
         \E site \in [1..n -> ValEmployee] :
            /\ val_in' = [parsed_data |-> [site_data |-> [employees |-> site],
                                           travel_data |-> [employees |-> travel]],
                          xero_employees |-> roster,
                          xero_regions |-> ValXeroRegions]
            /\ val_out' = ValidateAgainstXero(val_in'.parsed_data, roster,
                                              ValXeroRegions)
    /\ m_pc' = "validated"
    /\ UNCHANGED <<xero_employees, employee_lookup, match_cache, confirmed, dropped, calls,
                   match_call, capVars, consVars, entryVars, buildVars, parseVars>>

MatchNext == SetXeroEmployees \/ MatchEmployee \/ ConfirmMatch \/ ValidateCall

SpecMatch == MatchInit /\ [][MatchNext]_vars

\* the names validate_against_xero was given
ValNamesGiven ==
    NamesOf(val_in.parsed_data.site_data.employees)
        \cup NamesOf(val_in.parsed_data.travel_data.employees)

\* what match_employee(name, require_confirmation=False) returns on a fresh
\* matcher holding the roster validate_against_xero was given
ValMatchOf(name) ==
    MatchEmployeeOutcome(name, FALSE, val_in.xero_employees,
                         BuildLookupTables(val_in.xero_employees, <<>>), <<>>).result

\* C5: validate_against_xero places a name in valid_employees only when
\* match_employee yields an automatic match (HIGH, no confirmation required); a
\* name whose best candidate is MEDIUM or LOW is reported in unmapped_employees.
C5_OnlyAutomaticMatchesValid ==
    m_pc = "validated" =>
        \A name \in ValNamesGiven \ {""} :
            /\ name \in {item.key : item \in val_out.valid_employees}
                  => IsAutomaticMatch(ValMatchOf(name))
            /\ ValMatchOf(name).confidence \in {"MEDIUM", "LOW"}
                  => name \in val_out.unmapped_employees

\* "John Doe" is given, the roster holds "John Smith" and no "John Doe", the
\* match is MEDIUM, and valid_employees maps "John Doe" to "John Smith"
C5_Witness ==
    /\ m_pc = "validated"
    /\ "John Doe" \in ValNamesGiven
    /\ ValMatchOf("John Doe").confidence = "MEDIUM"
    /\ [key |-> "John Doe", value |-> "John Smith"] \in val_out.valid_employees
    /\ "John Doe" \notin val_out.unmapped_employees

\* C6 (as stated): match_employee on a name that equals a roster name
\* case-insensitively always returns that roster entry with HIGH, score 100 and
\* no confirmation required.
C6_ExactMatchAsStated ==
    (m_pc = "session" /\ match_call.op = "match_employee") =>
        LET name == Strip(match_call.timesheet_name)
            exact == {k \in 1..Len(xero_employees) :
                        Lower(xero_employees[k].name) = Lower(name)}
        IN exact # {} =>
              /\ match_call.result.confidence = "HIGH"
              /\ match_call.result.confidence_score = 10000
              /\ ~match_call.result.requires_confirmation
              /\ \E k \in exact :
                    /\ match_call.result.matched_name = {xero_employees[k].name}
                    /\ match_call.result.matched_id
                          = {xero_employees[k].employee_id}

\* C6 (what holds): as stated, unless require_confirmation is true and
\* confirm_match accepted that name since the roster was set; then the confirmed
\* employee is returned, still with HIGH, score 100 and no confirmation required.
C6_ExactMatch ==
    (m_pc = "session" /\ match_call.op = "match_employee") =>
        LET name == Strip(match_call.timesheet_name)
            exact == {k \in 1..Len(xero_employees) :
                        Lower(xero_employees[k].name) = Lower(name)}
            overridden == match_call.require_confirmation /\ name \in confirmed
        IN exact # {} =>
              /\ match_call.result.confidence = "HIGH"
              /\ match_call.result.confidence_score = 10000
              /\ ~match_call.result.requires_confirmation
              /\ \E k \in IF overridden THEN 1..Len(xero_employees) ELSE exact :
                    /\ match_call.result.matched_name = {xero_employees[k].name}
                    /\ match_call.result.matched_id
                          = {xero_employees[k].employee_id}

\* the roster holds "John Smith" as E1, confirm_match("john smith", "E2") was
\* accepted, and match_employee("john smith", True) answers with E2
C6_Witness ==
    /\ m_pc = "session"
    /\ match_call.op = "match_employee"
    /\ match_call.timesheet_name = "john smith"
    /\ match_call.require_confirmation
    /\ "john smith" \in confirmed
    /\ \E k \in 1..Len(xero_employees) :
          xero_employees[k] = [employee_id |-> "E1", name |-> "John Smith"]
    /\ match_call.result.matched_name = {"Ann Lee"}
    /\ match_call.result.matched_id = {"E2"}
    /\ match_call.result.confidence_score = 10000

(***************************************************************************)
(* timesheet_builder.py: TimesheetBuilder.  The hours of the entries handed *)
(* to the builder and the NumberOfUnits of its lines are counted in        *)
(* thousandths of an hour.                                                 *)
(***************************************************************************)
BuilderMixedPeriodDays == 30

BuilderWeekDays == 6

DefaultStartOffset == 6

\* a raised TimesheetBuilderError: what it reports, and the keys it enumerates
BuildError(error, missing_regions, missing_hour_types) ==
    [ok |-> FALSE,
     value |-> [error |-> error, missing_regions |-> missing_regions,
                missing_hour_types |-> missing_hour_types]]

EntryDateSet(employee_timesheet) ==
    {employee_timesheet.daily_entries[k].entry_date :
        k \in 1..Len(employee_timesheet.daily_entries)}

\* EmployeeTimesheet.get_regions (models.py 142-144)
GetRegions(employee_timesheet) ==
    {employee_timesheet.daily_entries[k].region_name :
        k \in 1..Len(employee_timesheet.daily_entries)}

\* _validate_employee_timesheet (134-152): "" when nothing is raised
ValidateEmployeeTimesheet(employee_timesheet) ==
    IF ~(\E id \in employee_timesheet.xero_employee_id : id # "")
    THEN "missing Xero employee ID"
    ELSE IF employee_timesheet.daily_entries = <<>> THEN "has no daily entries"
    ELSE ""

\* _validate_mappings, lines 173-174
MissingRegions(employee_timesheet, tracking_mappings) ==
    {region \in GetRegions(employee_timesheet) :
        region \notin DictKeys(tracking_mappings)}

\* _validate_mappings, lines 181-182
MissingHourTypes(employee_timesheet, earnings_mappings) ==
    {ht \in {employee_timesheet.daily_entries[k].hour_type :
                k \in 1..Len(employee_timesheet.daily_entries)} :
        ht \notin DictKeys(earnings_mappings)}

\* _get_start_date (188-203)
GetStartDate(employee_timesheet) ==
    IF employee_timesheet.daily_entries = <<>>
    THEN employee_timesheet.pay_period_end_date - DefaultStartOffset
    ELSE MinOf(EntryDateSet(employee_timesheet))

\* mutant: a span of exactly 30 days counts as mixed-period data
SpansMixedPeriodInclusive(min_date, max_date) ==
    max_date - min_date >= BuilderMixedPeriodDays

\* line 74: (max_date - min_date).days > 30
SpansMixedPeriod(min_date, max_date) ==
    max_date - min_date > BuilderMixedPeriodDays

\* lines 68-79: the dates the payload is submitted for
DateWindow(employee_timesheet) ==
    LET entry_dates == EntryDateSet(employee_timesheet)
        start_date == GetStartDate(employee_timesheet)
        end_date == employee_timesheet.pay_period_end_date
    IN IF entry_dates # {}
       THEN IF SpansMixedPeriod(MinOf(entry_dates), MaxOf(entry_dates))
            THEN [start_date |-> MinOf(entry_dates),
                  end_date |-> MinOf(entry_dates) + BuilderWeekDays]
            ELSE [start_date |-> start_date, end_date |-> end_date]
       ELSE [start_date |-> start_date, end_date |-> end_date]

\* _group_daily_entries (284-302): a dict keyed by (date, region, hour type)
RECURSIVE GroupDailyEntries(_, _)
GroupDailyEntries(daily_entries, grouped) ==
    IF daily_entries = <<>> THEN grouped
    ELSE LET entry == Head(daily_entries)
             key == <<entry.entry_date, entry.region_name, entry.hour_type>>
         IN GroupDailyEntries(Tail(daily_entries),
                DictPut(grouped, key,
                        IF key \in DictKeys(grouped)
                        THEN Append(DictGet(grouped, key), entry)
                        ELSE <<entry>>))

TotalHours(entries) == SumSeq([k \in 1..Len(entries) |-> entries[k].hours])

\* round(float(total_hours), 2) of a number of thousandths: the nearest whole
\* hundredth, a tie going to the even one (the totals the model draws have no
\* tie, whose outcome for a float depends on its binary expansion)
Round2(total_hours) ==
    LET r == total_hours % 10
        down == total_hours - r
    IN IF r < 5 THEN down
       ELSE IF r > 5 THEN down + 10
       ELSE IF (down \div 10) % 2 = 0 THEN down ELSE down + 10

\* mutant: the rate of the reference entry is attached whatever the hour type
TimesheetLineAnyType(group, tracking_mappings, earnings_mappings) ==
    LET tracking_id == IF group.key[2] \in DictKeys(tracking_mappings)
                       THEN DictGet(tracking_mappings, group.key[2])
                       ELSE NoValue
    IN [Date |-> IsoFormat(group.key[1]),
        EarningsRateID |-> DictGet(earnings_mappings, group.key[3]),
        NumberOfUnits |-> Round2(TotalHours(group.value)),
        TrackingItemID |-> {t \in tracking_id : t # ""},
        RatePerUnit |-> group.value[1].overtime_rate]

\* lines 264-280: one line; TrackingItemID and RatePerUnit are present when the
\* set is not empty
TimesheetLine(group, tracking_mappings, earnings_mappings) ==
    LET entry_date == group.key[1]
        region_name == group.key[2]
        hour_type == group.key[3]
        reference_entry == group.value[1]
        tracking_id == IF region_name \in DictKeys(tracking_mappings)
                       THEN DictGet(tracking_mappings, region_name)
                       ELSE NoValue
    IN [Date |-> IsoFormat(entry_date),
        EarningsRateID |-> DictGet(earnings_mappings, hour_type),
        NumberOfUnits |-> Round2(TotalHours(group.value)),
        TrackingItemID |-> {t \in tracking_id : t # ""},
        RatePerUnit |-> IF hour_type = "OVERTIME" THEN reference_entry.overtime_rate
                        ELSE NoValue]

\* mutant: a group is kept whatever its total
BuildTimesheetLinesKeepAll(employee_timesheet, tracking_mappings, earnings_mappings) ==
    LET grouped == GroupDailyEntries(employee_timesheet.daily_entries, <<>>)
    IN [n \in 1..Len(grouped) |->
            TimesheetLine(grouped[n], tracking_mappings, earnings_mappings)]

\* _build_timesheet_lines (234-282)
BuildTimesheetLines(employee_timesheet, tracking_mappings, earnings_mappings) ==
    LET grouped == GroupDailyEntries(employee_timesheet.daily_entries, <<>>)
        kept == PositionsIn(Len(grouped),
                            {k \in 1..Len(grouped) :
                                ~(TotalHours(grouped[k].value) <= 0)})
    IN [n \in 1..Len(kept) |->
            TimesheetLine(grouped[kept[n]], tracking_mappings, earnings_mappings)]

\* build_timesheet (36-96); PayrollCalendarID is present when the set is not empty
BuildTimesheet(employee_timesheet, tracking_mappings, earnings_mappings) ==
    LET invalid == ValidateEmployeeTimesheet(employee_timesheet)
        missing_regions == MissingRegions(employee_timesheet, tracking_mappings)
        missing_hour_types == MissingHourTypes(employee_timesheet, earnings_mappings)
        window == DateWindow(employee_timesheet)
    IN IF invalid # "" THEN BuildError(invalid, {}, {})
       ELSE IF missing_regions # {}
       THEN BuildError("Missing tracking mappings for regions", missing_regions, {})
       ELSE IF missing_hour_types # {}
       THEN BuildError("Missing earnings rate mappings for hour types", {},
                       missing_hour_types)
       ELSE Returned(
              [PayrollCalendarID |->
                   {c \in employee_timesheet.payroll_calendar_id : c # ""},
               EmployeeID |-> employee_timesheet.xero_employee_id,
               StartDate |-> IsoFormat(window.start_date),
               EndDate |-> IsoFormat(window.end_date),
               Status |-> "Draft",
               TimesheetLines |->
                   BuildTimesheetLines(employee_timesheet, tracking_mappings,
                                       earnings_mappings)])

(***************************************************************************)
(* The payload-building specification                                      *)
(***************************************************************************)
MaxBuildEntries == 2    \* entries of the timesheet

BuildDays == {0, 30, 31}

BuildEndDates == {31, 45}

BuildRegions == {"North", "South"}

\* entries as the consolidator leaves them: only OVERTIME entries carry a rate
BuildEntry ==
    {e \in [entry_date : BuildDays, region_name : BuildRegions, hours : {4000},
            hour_type : {"REGULAR", "OVERTIME"}, overtime_rate : {NoValue, {15}}] :
        e.hour_type = "REGULAR" => e.overtime_rate = NoValue}

BuildEmployeeIds == {NoValue, {"E1"}}

BuildTrackingMappings ==
    { <<>>,
      <<[key |-> "North", value |-> {"T-N"}]>>,
      <<[key |-> "North", value |-> {"T-N"}], [key |-> "South", value |-> NoValue]>> }

BuildEarningsMappings ==
    { <<>>,
      <<[key |-> "REGULAR", value |-> "R-1"]>>,
      <<[key |-> "REGULAR", value |-> "R-1"], [key |-> "OVERTIME", value |-> "O-1"]>> }

BuildInit ==
    /\ build_pc = "start"
    /\ \E n \in 1..MaxBuildEntries, end_date \in BuildEndDates,
          id \in BuildEmployeeIds, tracking_mappings \in BuildTrackingMappings,
          earnings_mappings \in BuildEarningsMappings :
         \E daily_entries \in [1..n -> BuildEntry] :
            /\ EmployeeTimesheetValid("Ann Lee", daily_entries, end_date)
            /\ build_in = [employee_timesheet |->
                              [employee_name |-> "Ann Lee",
                               daily_entries |-> daily_entries,
                               pay_period_end_date |-> end_date,
                               xero_employee_id |-> id,
                               payroll_calendar_id |-> NoValue],
                           tracking_mappings |-> tracking_mappings,
                           earnings_mappings |-> earnings_mappings]
    /\ build_out = <<>>
    /\ CapIdle
    /\ ConsIdle
    /\ EntryIdle
    /\ MatchIdle
    /\ ParseIdle

\* builder.build_timesheet(employee_timesheet, tracking_mappings, earnings_mappings)
BuildTimesheetCall ==
    /\ build_pc = "start"
    /\ build_out' = BuildTimesheet(build_in.employee_timesheet,
                                   build_in.tracking_mappings,
                                   build_in.earnings_mappings)
    /\ build_pc' = "built"
    /\ UNCHANGED <<build_in, capVars, consVars, entryVars, matchVars, parseVars>>

SpecBuild == BuildInit /\ [][BuildTimesheetCall]_vars

\* the regions and hour types of the timesheet that have no mapping
UnmappedRegions ==
    {build_in.employee_timesheet.daily_entries[k].region_name :
        k \in 1..Len(build_in.employee_timesheet.daily_entries)}
      \ {build_in.tracking_mappings[k].key : k \in 1..Len(build_in.tracking_mappings)}

UnmappedHourTypes ==
    {build_in.employee_timesheet.daily_entries[k].hour_type :
        k \in 1..Len(build_in.employee_timesheet.daily_entries)}
      \ {build_in.earnings_mappings[k].key : k \in 1..Len(build_in.earnings_mappings)}

\* C7: when a region or an hour type of the timesheet has no mapping,
\* build_timesheet fails and its one error enumerates every missing region and
\* every missing hour type together.
C7_AllMissingKeysReported ==
    (/\ build_pc = "built"
     /\ build_in.employee_timesheet.xero_employee_id # NoValue
     /\ UnmappedRegions \cup UnmappedHourTypes # {}) =>
        /\ ~build_out.ok
        /\ build_out.value.missing_regions = UnmappedRegions
        /\ build_out.value.missing_hour_types = UnmappedHourTypes

\* a region and an hour type are both unmapped, and the error names the region only
C7_Witness ==
    /\ build_pc = "built"
    /\ UnmappedRegions = {"South"}
    /\ UnmappedHourTypes = {"OVERTIME"}
    /\ ~build_out.ok
    /\ build_out.value.missing_regions = {"South"}
    /\ build_out.value.missing_hour_types = {}

\* C8: StartDate is the earliest entry date; EndDate is the pay-period end date
\* when the entry dates span at most 30 days, and the earliest entry date plus 6
\* days when they span more.
C8_DateWindow ==
    (build_pc = "built" /\ build_out.ok) =>
        LET dates == {build_in.employee_timesheet.daily_entries[k].entry_date :
                         k \in 1..Len(build_in.employee_timesheet.daily_entries)}
            earliest == CHOOSE d \in dates : \A e \in dates : d <= e
            latest == CHOOSE d \in dates : \A e \in dates : d >= e
        IN /\ build_out.value.StartDate = IsoFormat(earliest)
           /\ build_out.value.EndDate
                 = IF latest - earliest <= 30
                   THEN IsoFormat(build_in.employee_timesheet.pay_period_end_date)
                   ELSE IsoFormat(earliest + 6)

C8_Witness ==
    /\ build_pc = "built"
    /\ build_out.ok
    /\ build_in.employee_timesheet.pay_period_end_date = 45
    /\ {build_in.employee_timesheet.daily_entries[k].entry_date :
           k \in 1..Len(build_in.employee_timesheet.daily_entries)} = {0, 31}
    /\ build_out.value.StartDate = <<2024, 1, 1>>
    /\ build_out.value.EndDate = <<2024, 1, 7>>

(***************************************************************************)
(* Claims about the unknown-region records                                 *)
(***************************************************************************)
\* the output entries of employee `name` that were quarantined, as the audit
\* records they should have: <<original region, ISO date, hours>>
QuarantinedOf(name) ==
    LET sheets == cons_out.value.employee_timesheets
        t == CHOOSE t \in 1..Len(sheets) : sheets[t].employee_name = name
        kept == PositionsIn(Len(sheets[t].daily_entries),
                            {k \in 1..Len(sheets[t].daily_entries) :
                                sheets[t].daily_entries[k].region_name = "Unknown"})
    IN [n \in 1..Len(kept) |->
           <<sheets[t].daily_entries[kept[n]].original_region,
             IsoFormat(sheets[t].daily_entries[kept[n]].entry_date),
             sheets[t].daily_entries[kept[n]].hours>>]

\* the records the report holds for employee `name`, in the same shape
ReportedOf(name) ==
    LET recs == report_out.unknown_region_entries
        kept == PositionsIn(Len(recs), {k \in 1..Len(recs) :
                                           recs[k].employee_name = name})
    IN [n \in 1..Len(kept) |->
           <<recs[kept[n]].original_region, recs[kept[n]].entry_date,
             recs[kept[n]].hours>>]

\* C11: every entry quarantined to "Unknown" is exported with hours 0 (no
\* exported "Unknown" entry shows other hours), and the unknown-region report
\* holds one record per quarantined entry with its employee, original region,
\* date and true hours.
C11_RedactionKeepsHours ==
    cons_pc = "reported" =>
        LET sheets == cons_out.value.employee_timesheets
        IN /\ \A t \in 1..Len(sheets) :
                LET exported == export_out.employees[t].daily_entries
                    name == sheets[t].employee_name
                IN /\ export_out.employees[t].employee_name = name
                   /\ \A k \in 1..Len(exported) :
                         exported[k].region_name = "Unknown" => exported[k].hours = 0
                   /\ \A k \in 1..Len(sheets[t].daily_entries) :
                         sheets[t].daily_entries[k].region_name = "Unknown" =>
                            \E j \in 1..Len(exported) :
                               /\ exported[j].region_name = "Unknown"
                               /\ exported[j].hours = 0
                               /\ exported[j].entry_date
                                     = IsoFormat(sheets[t].daily_entries[k].entry_date)
                               /\ exported[j].hour_type
                                     = sheets[t].daily_entries[k].hour_type
                   /\ \A rec \in SeqRange(QuarantinedOf(name)) \cup SeqRange(ReportedOf(name)) :
                         CountOf(ReportedOf(name), rec) = CountOf(QuarantinedOf(name), rec)
           /\ \A k \in 1..Len(report_out.unknown_region_entries) :
                 \E t \in 1..Len(sheets) :
                    sheets[t].employee_name
                        = report_out.unknown_region_entries[k].employee_name

\* two quarantined entries of one employee with different hours: one exported
\* "Unknown" entry with hours 0, two report records with hours 4 and 8
C11_Witness ==
    /\ cons_pc = "reported"
    /\ \E t \in 1..Len(export_out.employees) :
          /\ Len(export_out.employees[t].daily_entries) = 1
          /\ export_out.employees[t].daily_entries[1].region_name = "Unknown"
          /\ export_out.employees[t].daily_entries[1].hours = 0
    /\ Len(report_out.unknown_region_entries) = 2
    /\ {report_out.unknown_region_entries[k].hours : k \in 1..2} = {4, 8}

(***************************************************************************)
(* The consolidation specification over defective inputs and long date     *)
(* ranges: the same calls as SpecCons, other inputs                        *)
(***************************************************************************)
\* what may be wrong with the structure of the three inputs
ConsDefects == {"none", "site_file_type", "site_employees", "site_end_date",
                "travel_file_type", "travel_employees", "overtime_file_type",
                "overtime_lookup"}

\* the pay-period end dates the site file may declare
MaxConsLongEntries == 3     \* entries in the site and travel files together

ConsDeclaredEndDates == {10, 50}

\* site entry dates 7, 40 and 375 days apart
ConsLongSiteDays == {5, 12, 45, 380}

ConsLongTravelDays == {SentinelDate, 3, 47}

ConsLongSiteEntry == [entry_date : ConsLongSiteDays, region_name : {"North"},
                      hours : {8}, hour_type : {"REGULAR"}]

ConsLongTravelEntry == [entry_date : ConsLongTravelDays, region_name : {"North"},
                        hours : {4}, hour_type : {"TRAVEL"}]

\* the three inputs with one structural defect, or none
DefectiveInput(se, te, end_date, defect) ==
    [site_data |->
        [file_type |-> IF defect = "site_file_type" THEN "travel_time"
                       ELSE "site_timesheet",
         has_employees |-> defect # "site_employees",
         employees |-> IF defect = "site_employees" THEN <<>> ELSE se,
         has_end_date |-> defect # "site_end_date",
         pay_period_end_date |-> end_date],
     travel_data |->
        [file_type |-> IF defect = "travel_file_type" THEN "site_timesheet"
                       ELSE "travel_time",
         has_employees |-> defect # "travel_employees",
         employees |-> IF defect = "travel_employees" THEN <<>> ELSE te],
     overtime_data |->
        [file_type |-> IF defect = "overtime_file_type" THEN "travel_time"
                       ELSE "overtime_rates",
         has_lookup |-> defect # "overtime_lookup",
         lookup |-> IF defect = "overtime_lookup" THEN <<>>
                    ELSE ConsOvertimeData.lookup],
     valid_regions |-> [given |-> FALSE, regions |-> {}]]

ConsDatesInit ==
    /\ cons_pc = "start"
    /\ \E layout \in ConsLayouts, end_date \in ConsDeclaredEndDates,
          defect \in ConsDefects :
         \E slens \in LenVectors(Len(layout.site), MaxConsLongEntries) :
           \E tlens \in LenVectors(Len(layout.travel),
                                   MaxConsLongEntries - SumSeq(slens)) :
             \E sflat \in [1..SumSeq(slens) -> ConsLongSiteEntry],
                tflat \in [1..SumSeq(tlens) -> ConsLongTravelEntry] :
               cons_in = DefectiveInput(EmployeeRecords(layout.site, slens, sflat),
                                        EmployeeRecords(layout.travel, tlens, tflat),
                                        end_date, defect)
    /\ cons_out = <<>>
    /\ export_out = <<>>
    /\ report_out = <<>>
    /\ ts_in = <<>>
    /\ ts_out = <<>>
    /\ cons_calls = 0
    /\ CapIdle
    /\ EntryIdle
    /\ MatchIdle
    /\ BuildIdle
    /\ ParseIdle

SpecConsDates == ConsDatesInit /\ [][ConsNext]_vars

(***************************************************************************)
(* Claims about the failure policy of consolidate                          *)
(***************************************************************************)
\* the entry dates the site file holds
SiteDates ==
    UNION {{e.entries[k].entry_date : k \in 1..Len(e.entries)} :
              e \in SeqRange(cons_in.site_data.employees)}

\* the entry dates the travel file holds, placeholders (1900-01-01) included
TravelDates ==
    UNION {{e.entries[k].entry_date : k \in 1..Len(e.entries)} :
              e \in SeqRange(cons_in.travel_data.employees)}

\* the dates observed in the inputs: the placeholder is no observed date
ObservedDates == SiteDates \cup (TravelDates \ {SentinelDate})

\* days between the earliest and the latest date of a set, 0 for the empty set
SpanOf(dates) ==
    IF dates = {} THEN 0
    ELSE (CHOOSE d \in dates : \A e \in dates : d >= e)
           - (CHOOSE d \in dates : \A e \in dates : d <= e)

StructurallyValid ==
    /\ cons_in.site_data.file_type = "site_timesheet"
    /\ cons_in.site_data.has_employees
    /\ cons_in.travel_data.file_type = "travel_time"
    /\ cons_in.travel_data.has_employees
    /\ cons_in.overtime_data.file_type = "overtime_rates"
    /\ cons_in.overtime_data.has_lookup

\* C12: consolidate raises and returns no PayrollData whenever an input misses a
\* required key or has the wrong file_type, the site data has no pay-period end
\* date, the inputs hold no employee, or the observed dates span more than 365
\* days.
C12_FailFast ==
    (/\ cons_pc = "consolidated"
     /\ \/ ~StructurallyValid
        \/ ~cons_in.site_data.has_end_date
        \/ cons_in.site_data.employees = <<>> /\ cons_in.travel_data.employees = <<>>
        \/ SpanOf(ObservedDates) > 365)
    => (~cons_out.ok /\ cons_out.value = NoPayroll)

\* a structurally valid input whose only fault is the span of 375 days
C12_Witness ==
    /\ cons_pc = "consolidated"
    /\ StructurallyValid
    /\ cons_in.site_data.has_end_date
    /\ SiteDates = {5, 380}
    /\ TravelDates = {}
    /\ ~cons_out.ok

\* every employee record of the inputs belongs to a name that has an entry
EveryNameHasEntries ==
    \A name \in InputNames :
        \E e \in SeqRange(cons_in.site_data.employees)
                   \cup SeqRange(cons_in.travel_data.employees) :
            e.employee_name = name /\ e.entries # <<>>

\* structurally valid inputs with an employee, every name with an entry, and
\* dates that span at most 365 days
WarningOnlyInput ==
    /\ StructurallyValid
    /\ cons_in.site_data.has_end_date
    /\ InputNames # {}
    /\ EveryNameHasEntries
    /\ SpanOf(ObservedDates) <= 365

\* the end date the timesheets are validated against: the declared date, or the
\* latest site date when the site dates span more than 30 days
EndDateInForce ==
    IF SpanOf(SiteDates) > 30
    THEN CHOOSE d \in SiteDates : \A e \in SiteDates : d >= e
    ELSE cons_in.site_data.pay_period_end_date

MaxSheets == 2          \* worksheets in a workbook

Today == 20             \* date.today()

\* worksheet.title, by position in the workbook
SheetTitles == <<"North", "South", "West">>

\* _validate_file_exists (69-93) and _load_excel_workbook (95-111): TRUE when
\* neither raises
FileOpens(file) == file.state = "workbook"

\* the entry a reader emits
ParsedEntry(entry_date, region_name, hours, hour_type) ==
    [entry_date |-> entry_date, region_name |-> region_name, hours |-> hours,
     hour_type |-> hour_type]

\* the aggregation step: employees_list from master_employees_data
EmployeesList(master) ==
    [k \in 1..Len(master) |->
        [employee_name |-> master[k].key, entries |-> master[k].value]]

\* master_employees_data[name] exists afterwards
MasterWith(master, name) ==
    IF name \in DictKeys(master) THEN master ELSE DictPut(master, name, <<>>)

MasterAppend(master, name, entry) ==
    DictPut(master, name, Append(DictGet(master, name), entry))

HolidayHoursPerDay == 8     \* HOLIDAY_HOURS_PER_DAY

RegionOverrideHours == 8    \* SITE_TIMESHEET_CONFIG["region_override_hours"]

\* _cell_value_to_float (159-194) of a text: the stripped text with its commas
\* turned into points, read as a number, and 0 when that fails
CellValueToFloat(text) ==
    CASE Strip(text) = "7,0" -> 7
      [] Strip(text) = "0,0" -> 0
      [] OTHER -> 0

\* lines 491-531: the entry a date-column cell of a row adds.  A row's cell
\* holds the text in row.text or, when there is none, the number row.hours
\* (0 also stands for an empty cell)
SiteCell(master, row, region_name, entry_date) ==
    IF row.text # NoValue
    THEN LET hours_value == CHOOSE t \in row.text : TRUE
         IN IF Strip(Upper(hours_value)) = "HOL"
            THEN MasterAppend(master, row.name,
                     ParsedEntry(entry_date, region_name, HolidayHoursPerDay,
                                 "HOLIDAY"))
            ELSE MasterAppend(master, row.name,
                     ParsedEntry(entry_date, Strip(hours_value),
                                 RegionOverrideHours, "REGULAR"))
    ELSE IF row.hours <= 0
    THEN master
    ELSE MasterAppend(master, row.name,
             ParsedEntry(entry_date, region_name, row.hours, "REGULAR"))

\* SiteTimesheetParser.parse, one employee row (481-551)
SiteRow(acc, row, region_name, dates) ==
    IF row.name = ""
    THEN acc
    ELSE LET m0 == MasterWith(acc.master, row.name)
             m1 == SiteCell(m0, row, region_name, dates[1])
             overtime_date == IF acc.pay_period_end_date # NoValue
                              THEN CHOOSE d \in acc.pay_period_end_date : TRUE
                              ELSE dates[Len(dates)]
             m2 == IF row.overtime > 0
                   THEN MasterAppend(m1, row.name,
                            ParsedEntry(overtime_date, region_name, row.overtime,
                                        "OVERTIME"))
                   ELSE m1
         IN [acc EXCEPT !.master = m2]

RECURSIVE SiteRows(_, _, _, _, _)
SiteRows(acc, rows, n, region_name, dates) ==
    IF n = 0
    THEN acc
    ELSE SiteRow(SiteRows(acc, rows, n - 1, region_name, dates), rows[n],
                 region_name, dates)

\* SiteTimesheetParser.parse, the body of the loop for one worksheet (448-555):
\* a sheet that fails the heuristic is passed over, a sheet without dates is
\* left after the pay-period date was taken from it, and a sheet that throws
\* leaves behind what was merged before the exception
SiteSheet(acc, sheet, region_name) ==
    IF ~sheet.looks_valid \/ sheet.failure = "extract"
    THEN acc
    ELSE LET a0 == IF acc.pay_period_end_date = NoValue
                   THEN [acc EXCEPT !.pay_period_end_date = sheet.week_ending]
                   ELSE acc
         IN IF sheet.dates = <<>>
            THEN a0
            ELSE SiteRows([a0 EXCEPT !.all_dates = @ \cup SeqRange(sheet.dates)],
                          sheet.rows,
                          IF sheet.failure = "rows" THEN sheet.merged
                                                    ELSE Len(sheet.rows),
                          region_name, sheet.dates)

RECURSIVE SiteSheets(_, _, _)
SiteSheets(acc, sheets, n) ==
    IF n = 0
    THEN acc
    ELSE SiteSheet(SiteSheets(acc, sheets, n - 1), sheets[n], SheetTitles[n])

EmptyAggregate == [master |-> <<>>, all_dates |-> {}, pay_period_end_date |-> NoValue]

\* SiteTimesheetParser.parse, the returned dictionary (559-589)
SiteResult(file) ==
    LET acc == SiteSheets(EmptyAggregate, file.sheets, Len(file.sheets))
    IN [file_type |-> "site_timesheet",
        pay_period_end_date |->
            IF acc.pay_period_end_date # NoValue
            THEN CHOOSE d \in acc.pay_period_end_date : TRUE
            ELSE IF acc.all_dates # {} THEN MaxOf(acc.all_dates) ELSE Today,
        employees |-> EmployeesList(acc.master)]

\* mutant: an exception thrown while reading a sheet ends the whole parse
SiteParseNoSkip(file) ==
    IF ~FileOpens(file)
       \/ \E k \in 1..Len(file.sheets) :
            file.sheets[k].looks_valid /\ file.sheets[k].failure # "none"
    THEN Raises
    ELSE Returned(SiteResult(file))

\* SiteTimesheetParser.parse (420-592)
SiteParse(file) ==
    IF ~FileOpens(file) THEN Raises ELSE Returned(SiteResult(file))

\* TravelTimeParser.parse, one row (931-986)
TravelRow(acc, row) ==
    IF row.name = "" \/ row.hours <= 0
    THEN acc
    ELSE [acc EXCEPT
            !.master = MasterAppend(MasterWith(acc.master, row.name), row.name,
                          ParsedEntry(SentinelDate,
                                      IF row.site_name # "" THEN row.site_name
                                                            ELSE "Travel",
                                      row.hours, "TRAVEL")),
            !.all_dates = @ \cup {SentinelDate}]

RECURSIVE TravelRows(_, _, _)
TravelRows(acc, rows, n) ==
    IF n = 0 THEN acc ELSE TravelRow(TravelRows(acc, rows, n - 1), rows[n])

\* TravelTimeParser.parse, the body of the loop for one worksheet (922-990)
TravelSheet(acc, sheet) ==
    IF ~sheet.looks_valid
    THEN acc
    ELSE TravelRows(acc, sheet.rows,
                    IF sheet.failure = "rows" THEN sheet.merged ELSE Len(sheet.rows))

RECURSIVE TravelSheets(_, _, _)
TravelSheets(acc, sheets, n) ==
    IF n = 0 THEN acc ELSE TravelSheet(TravelSheets(acc, sheets, n - 1), sheets[n])

\* TravelTimeParser.parse, the returned dictionary (994-1019)
TravelResult(file) ==
    LET acc == TravelSheets(EmptyAggregate, file.sheets, Len(file.sheets))
    IN [file_type |-> "travel_time",
        pay_period_end_date |-> SentinelDate,
        employees |-> EmployeesList(acc.master)]

\* TravelTimeParser.parse (894-1022)
TravelParse(file) ==
    IF ~FileOpens(file) THEN Raises ELSE Returned(TravelResult(file))

\* OvertimeRatesParser.parse, the sheet that is read (1152-1170): the first
\* sheet with the title phrase, else the first sheet the heuristic accepts
ChosenSheets(sheets) ==
    LET titled == {k \in 1..Len(sheets) : sheets[k].title_phrase}
        candidates == IF titled # {}
                      THEN titled
                      ELSE {k \in 1..Len(sheets) : sheets[k].looks_valid}
    IN IF candidates = {} THEN {} ELSE {MinOf(candidates)}

\* OvertimeRatesParser.parse, one row (1181-1236): the first occurrence of a
\* name is kept
OvertimeRow(master, row) ==
    IF row.name = "" \/ row.name \in DictKeys(master)
    THEN master
    ELSE LET has_different_rate == row.flag = "yes"
         IN DictPut(master, row.name,
                    [employee_name |-> row.name,
                     has_different_overtime_rate |-> has_different_rate,
                     overtime_rate |-> IF has_different_rate /\ row.rate > 0
                                       THEN {row.rate} ELSE NoValue])

RECURSIVE OvertimeRows(_, _, _)
OvertimeRows(master, rows, n) ==
    IF n = 0 THEN master ELSE OvertimeRow(OvertimeRows(master, rows, n - 1), rows[n])

\* OvertimeRatesParser.parse, the returned dictionary (1179-1289)
OvertimeResult(file) ==
    LET chosen == ChosenSheets(file.sheets)
        master == IF chosen = {}
                  THEN <<>>
                  ELSE LET sheet == file.sheets[CHOOSE k \in chosen : TRUE]
                       IN OvertimeRows(<<>>, sheet.rows,
                                       IF sheet.failure = "rows" THEN sheet.merged
                                                                 ELSE Len(sheet.rows))
    IN [file_type |-> "overtime_rates",
        pay_period_end_date |-> Today,
        employees |-> [k \in 1..Len(master) |->
                          [employee_name |-> master[k].key, entries |-> <<>>]],
        overtime_rates_lookup |-> master]

\* OvertimeRatesParser.parse (1126-1291)
OvertimeParse(file) ==
    IF ~FileOpens(file) THEN Raises ELSE Returned(OvertimeResult(file))

(***************************************************************************)
(* The reading specification: one parse of one file by one reader          *)
(***************************************************************************)
\* a path that is missing, a directory, unreadable or no workbook; or a workbook
FileStates == {"missing", "directory", "unreadable", "corrupt", "workbook"}

SiteSheetShapes ==
    { [looks_valid |-> v, title_phrase |-> FALSE, week_ending |-> w, dates |-> d,
       rows |-> r, failure |-> f[1], merged |-> f[2]] :
        v \in BOOLEAN, w \in {NoValue, {10}}, d \in {<<>>, <<5>>},
        r \in { << [name |-> "Ann Lee", hours |-> 8, overtime |-> 0,
                      text |-> NoValue] >>,
                << [name |-> "Bob Ray", hours |-> 0, overtime |-> 2,
                      text |-> NoValue],
                   [name |-> "Ann Lee", hours |-> 8, overtime |-> 0,
                      text |-> NoValue] >> },
        f \in { <<"none", 0>>, <<"extract", 0>>, <<"rows", 1>> } }

TravelSheetShapes ==
    { [looks_valid |-> v, title_phrase |-> FALSE, rows |-> r, failure |-> f[1],
       merged |-> f[2]] :
        v \in BOOLEAN,
        r \in { << [name |-> "Ann Lee", site_name |-> "North", hours |-> 4] >>,
                << [name |-> "Bob Ray", site_name |-> "", hours |-> 4],
                   [name |-> "Ann Lee", site_name |-> "South", hours |-> 0] >> },
        f \in { <<"none", 0>>, <<"rows", 0>>, <<"rows", 1>> } }

\* a sheet with the title phrase is one the heuristic accepts (1071-1077)
OvertimeSheetShapes ==
    { [looks_valid |-> v[1], title_phrase |-> v[2], rows |-> r, failure |-> f[1],
       merged |-> f[2]] :
        v \in { <<FALSE, FALSE>>, <<TRUE, FALSE>>, <<TRUE, TRUE>> },
        r \in { << [name |-> "Ann Lee", flag |-> "yes", rate |-> 15] >>,
                << [name |-> "Bob Ray", flag |-> "no", rate |-> 0],
                   [name |-> "Bob Ray", flag |-> "yes", rate |-> 12] >> },
        f \in { <<"none", 0>>, <<"rows", 0>>, <<"rows", 1>> } }

ShapesOf(reader) ==
    CASE reader = "site" -> SiteSheetShapes
      [] reader = "travel" -> TravelSheetShapes
      [] reader = "overtime" -> OvertimeSheetShapes

ParseInit ==
    /\ parse_pc = "start"
    /\ \E reader \in {"site", "travel", "overtime"}, state \in FileStates :
         \E n \in 0..MaxSheets :
           \E sheets \in [1..n -> ShapesOf(reader)] :
             /\ state # "workbook" => n = 0
             /\ parse_in = [reader |-> reader,
                            file |-> [state |-> state, sheets |-> sheets]]
    /\ parse_out = <<>>
    /\ CapIdle
    /\ ConsIdle
    /\ EntryIdle
    /\ MatchIdle
    /\ BuildIdle

SiteParseCall ==
    /\ parse_pc = "start"
    /\ parse_in.reader = "site"
    /\ parse_out' = SiteParse(parse_in.file)
    /\ parse_pc' = "parsed"
    /\ UNCHANGED <<parse_in, capVars, consVars, entryVars, matchVars, buildVars>>

TravelParseCall ==
    /\ parse_pc = "start"
    /\ parse_in.reader = "travel"
    /\ parse_out' = TravelParse(parse_in.file)
    /\ parse_pc' = "parsed"
    /\ UNCHANGED <<parse_in, capVars, consVars, entryVars, matchVars, buildVars>>

OvertimeParseCall ==
    /\ parse_pc = "start"
    /\ parse_in.reader = "overtime"
    /\ parse_out' = OvertimeParse(parse_in.file)
    /\ parse_pc' = "parsed"
    /\ UNCHANGED <<parse_in, capVars, consVars, entryVars, matchVars, buildVars>>

ParseNext == SiteParseCall \/ TravelParseCall \/ OvertimeParseCall

SpecParse == ParseInit /\ [][ParseNext]_vars

(***************************************************************************)
(* Claims about the readers                                                *)
(***************************************************************************)
\* the sheets the reader accepts as its kind
AcceptedSheets ==
    LET sheets == parse_in.file.sheets
    IN IF parse_in.reader = "overtime"
       THEN ChosenSheets(sheets)
       ELSE {k \in 1..Len(sheets) : sheets[k].looks_valid}

\* the accepted sheets that are read to the end
ReadableSheets ==
    {k \in AcceptedSheets :
        /\ parse_in.file.sheets[k].failure = "none"
        /\ parse_in.reader = "site" => parse_in.file.sheets[k].dates # <<>>}

FreshResult ==
    MatchEmployeeOutcome(match_call.timesheet_name, match_call.require_confirmation,
                         xero_employees, BuildLookupTables(xero_employees, <<>>),
                         <<>>).result

\* the results confirm_match can have stored for a name under the roster in force
ConfirmedResults(name) ==
    {MatchResult(name, {xero_employees[k].name}, {xero_employees[k].employee_id},
                 "HIGH", ExactScore, <<>>, FALSE) : k \in 1..Len(xero_employees)}

\* C15: every result match_employee returns is the one computed against the
\* roster in force, or a confirmation made for that name since that roster was
\* set; nothing cached or confirmed under an earlier roster is returned.
C15_CacheInvalidation ==
    (m_pc = "session" /\ match_call.op = "match_employee") =>
        \/ match_call.result = FreshResult
        \/ /\ match_call.require_confirmation
           /\ Strip(match_call.timesheet_name) \in confirmed
           /\ match_call.result \in ConfirmedResults(Strip(match_call.timesheet_name))

\* the last set_xero_employees found a result cached for the name just looked up
\* that named E1 of the earlier roster, and match_employee returned E3 of the
\* roster in force
C15_Witness ==
    /\ m_pc = "session"
    /\ match_call.op = "match_employee"
    /\ Strip(match_call.timesheet_name) # ""
    /\ LET key == <<Strip(match_call.timesheet_name), match_call.require_confirmation>>
       IN /\ key \in DictKeys(dropped)
          /\ DictGet(dropped, key).matched_id = {"E1"}
    /\ match_call.result.matched_id = {"E3"}

(***************************************************************************)
(* Claims about the order of capping                                       *)
(***************************************************************************)
\* the REGULAR entries of a list dated d, in list order
RegularOn(entries, d) ==
    LET keep == PositionsIn(Len(entries),
                            {k \in 1..Len(entries) :
                                /\ entries[k].hour_type = "REGULAR"
                                /\ entries[k].entry_date = d})
    IN [k \in 1..Len(keep) |-> entries[keep[k]]]

RegularHoursOn(entries, d) ==
    LET on == RegularOn(entries, d)
    IN SumSeq([k \in 1..Len(on) |-> on[k].hours])

\* the dates on which capping reduced or removed a REGULAR entry of employee i
ReducedDates(i) ==
    {d \in CapDays : RegularHoursOn(site_out[i].entries, d)
                        < RegularHoursOn(site_in[i].entries, d)}

\* C16: capping takes hours from the latest REGULAR entries first.  If a REGULAR
\* entry dated d was reduced or removed, no REGULAR entry of that employee with
\* a later date is left, the REGULAR entries dated before the earliest reduced
\* date are unchanged, and no entry with zero hours is left in the list.
C16_LatestFirst ==
    cap_pc = "capped" =>
        \A i \in 1..Len(site_in) :
            /\ \A d \in ReducedDates(i) :
                  /\ \A later \in CapDays :
                        later > d => RegularOn(site_out[i].entries, later) = <<>>
                  /\ \A earlier \in CapDays :
                        (\A r \in ReducedDates(i) : earlier < r) =>
                            RegularOn(site_out[i].entries, earlier)
                                = RegularOn(site_in[i].entries, earlier)
            /\ \A k \in 1..Len(site_out[i].entries) : site_out[i].entries[k].hours > 0

\* an employee whose REGULAR entry of day 2 was removed and whose REGULAR entry
\* of day 1 was reduced from 45 to 40 hours
C16_Witness ==
    /\ cap_pc = "capped"
    /\ \E i \in 1..Len(site_in) :
          /\ ReducedDates(i) = {1, 2}
          /\ RegularHoursOn(site_in[i].entries, 2) = 40
          /\ RegularOn(site_out[i].entries, 2) = <<>>
          /\ RegularHoursOn(site_in[i].entries, 1) = 45
          /\ RegularHoursOn(site_out[i].entries, 1) = 40
          /\ Len(site_out[i].entries) = Len(site_in[i].entries) - 1

(***************************************************************************)
(* Claims about the entries consolidate hands on                           *)
(***************************************************************************)
\* the entries the two files hold for a name, site entries first
RECURSIVE InputEntriesOf(_, _)
InputEntriesOf(employees, name) ==
    IF employees = <<>> THEN <<>>
    ELSE (IF Head(employees).employee_name = name THEN Head(employees).entries
          ELSE <<>>) \o InputEntriesOf(Tail(employees), name)

InputEntries(name) ==
    InputEntriesOf(cons_in.site_data.employees, name)
        \o InputEntriesOf(cons_in.travel_data.employees, name)

\* the output timesheets of a name
TimesheetsOf(name) ==
    {t \in 1..Len(cons_out.value.employee_timesheets) :
        cons_out.value.employee_timesheets[t].employee_name = name}

\* C17: consolidate neither drops nor merges entries.  For every employee name
\* the output timesheet holds as many entries as the site and travel files
\* supplied for that name, entries with unknown regions and entries equal to one
\* another included.
C17_NoDropNoMerge ==
    (cons_pc = "consolidated" /\ cons_out.ok) =>
        \A name \in InputNames :
            /\ TimesheetsOf(name) # {}
            /\ \A t \in TimesheetsOf(name) :
                LET out == cons_out.value.employee_timesheets[t].daily_entries
                    given == InputEntries(name)
                IN /\ Len(out) = Len(given)
                   /\ \A h \in {4, 8}, ty \in {"REGULAR", "OVERTIME", "TRAVEL"} :
                        Cardinality({k \in 1..Len(out) :
                                        out[k].hours = h /\ out[k].hour_type = ty})
                          = Cardinality({k \in 1..Len(given) :
                                        given[k].hours = h /\ given[k].hour_type = ty})

\* two equal site entries with a region outside the valid-region set, and both
\* are in the output timesheet
C17_Witness ==
    /\ cons_pc = "consolidated"
    /\ cons_out.ok
    /\ cons_in.valid_regions.given
    /\ \E name \in InputNames :
          /\ Len(InputEntries(name)) = 2
          /\ InputEntries(name)[1] = InputEntries(name)[2]
          /\ InputEntries(name)[1].region_name \notin cons_in.valid_regions.regions
          /\ \E t \in TimesheetsOf(name) :
                Len(cons_out.value.employee_timesheets[t].daily_entries) = 2

(***************************************************************************)
(* Claims about the timesheets consolidate returns                         *)
(***************************************************************************)
\* the names for which the site or travel file holds an entry
NamesWithEntries == {name \in InputNames : InputEntries(name) # <<>>}

\* every entry of the inputs can be made a DailyEntry: its region text is not
\* empty, or a valid-region set is supplied
EntriesConstructible ==
    \A name \in InputNames :
        \A k \in 1..Len(InputEntries(name)) :
            InputEntries(name)[k].region_name # "" \/ cons_in.valid_regions.given

\* one timesheet for each name with entries, ordered by name, each with its
\* entries in non-decreasing date order
OneTimesheetPerName ==
    LET sheets == cons_out.value.employee_timesheets
    IN /\ {sheets[t].employee_name : t \in 1..Len(sheets)} = NamesWithEntries
       /\ \A t, u \in 1..Len(sheets) :
             t < u => NameRank(sheets[t].employee_name)
                        < NameRank(sheets[u].employee_name)
       /\ \A t \in 1..Len(sheets) :
             \A j, k \in 1..Len(sheets[t].daily_entries) :
                j < k => sheets[t].daily_entries[j].entry_date
                            <= sheets[t].daily_entries[k].entry_date

\* C18 (as stated): for structurally valid inputs whose entry dates are all on
\* or before the pay-period end date, consolidate returns exactly one timesheet
\* for each name that has an entry, ordered by name, with each timesheet's
\* entries in non-decreasing date order.
C18_OnePerNameAsStated ==
    (/\ cons_pc = "consolidated"
     /\ StructurallyValid
     /\ cons_in.site_data.has_end_date
     /\ EntriesConstructible
     /\ NamesWithEntries # {}
     /\ \A d \in ObservedDates : d <= cons_in.site_data.pay_period_end_date)
        => (cons_out.ok /\ OneTimesheetPerName)

\* C18 (amended): as stated, for inputs in which every employee name has at
\* least one entry, every entry can be made a DailyEntry, the dates span at most
\* 365 days and no entry is dated after the end date in force; an employee
\* record whose name has no entry at all makes consolidate raise.
C18_OnePerName ==
    (/\ cons_pc = "consolidated"
     /\ StructurallyValid
     /\ cons_in.site_data.has_end_date
     /\ EntriesConstructible
     /\ NamesWithEntries # {}
     /\ SpanOf(ObservedDates) <= 365
     /\ \A d \in ObservedDates : d <= EndDateInForce)
        => IF EveryNameHasEntries
           THEN cons_out.ok /\ OneTimesheetPerName
           ELSE ~cons_out.ok

\* "Bob Ray" before "Ann Lee" in the site file, and an employee whose entries
\* arrive latest first: the timesheets come out by name and the entries by date
C18_Witness ==
    /\ cons_pc = "consolidated"
    /\ StructurallyValid
    /\ cons_out.ok
    /\ OneTimesheetPerName
    /\ Len(cons_in.site_data.employees) = 2
    /\ cons_in.site_data.employees[1].employee_name = "Bob Ray"
    /\ cons_in.site_data.employees[2].employee_name = "Ann Lee"
    /\ Len(cons_out.value.employee_timesheets) = 2
    /\ cons_out.value.employee_timesheets[1].employee_name = "Ann Lee"

(***************************************************************************)
(* Claims about the authoritative pay-period end date                      *)
(***************************************************************************)
LatestSiteDate == CHOOSE d \in SiteDates : \A e \in SiteDates : d >= e

\* C19: when the site entry dates span at most 30 days the output end date is
\* the site-declared date; when they span more than 30 days it is the latest
\* site entry date and never earlier than the declared date; travel data never
\* changes it.
C19_EndDateAsStated ==
    (cons_pc = "consolidated" /\ cons_out.ok) =>
        LET declared == cons_in.site_data.pay_period_end_date
            end_date == cons_out.value.pay_period_end_date
        IN IF SpanOf(SiteDates) <= 30
           THEN end_date = declared
           ELSE end_date = LatestSiteDate /\ end_date >= declared

\* site entries on days 5 and 45 with day 50 declared: consolidate returns a
\* payroll whose end date, day 45, is earlier than the declared date
C19_Witness ==
    /\ cons_pc = "consolidated"
    /\ cons_out.ok
    /\ SiteDates = {5, 45}
    /\ cons_in.site_data.pay_period_end_date = 50
    /\ cons_out.value.pay_period_end_date = 45
    /\ \A t \in 1..Len(cons_out.value.employee_timesheets) :
          cons_out.value.employee_timesheets[t].pay_period_end_date = 45

(***************************************************************************)
(* Claims about the placeholder date of travel entries                     *)
(***************************************************************************)
\* the dates the travel entries of a name are expected to come out with: the
\* placeholder replaced by the end date of the payroll
ResolvedTravelDates(name) ==
    LET given == InputEntriesOf(cons_in.travel_data.employees, name)
    IN [k \in 1..Len(given) |->
          IF given[k].entry_date = SentinelDate
          THEN cons_out.value.pay_period_end_date
          ELSE given[k].entry_date]

\* the dates of the TRAVEL entries in the output timesheet t
TravelDatesOut(t) ==
    LET out == cons_out.value.employee_timesheets[t].daily_entries
        keep == PositionsIn(Len(out), {k \in 1..Len(out) : out[k].hour_type = "TRAVEL"})
    IN [k \in 1..Len(keep) |-> out[keep[k]].entry_date]

\* C20: every travel entry that carries the placeholder date 1900-01-01 is in the
\* output dated at the authoritative pay-period end date, after any extension,
\* and no entry of the output is dated in 1900.
C20_SentinelResolved ==
    (cons_pc = "consolidated" /\ cons_out.ok) =>
        /\ cons_out.value.pay_period_end_date
             = AuthoritativeEndDate(cons_in.site_data)
        /\ \A name \in InputNames :
              \A t \in TimesheetsOf(name) :
                 /\ \A d \in SeqRange(ResolvedTravelDates(name))
                              \cup SeqRange(TravelDatesOut(t)) :
                       CountOf(TravelDatesOut(t), d)
                          = CountOf(ResolvedTravelDates(name), d)
                 /\ \A k \in 1..Len(cons_out.value.employee_timesheets[t].daily_entries) :
                       ~YearIs1900(cons_out.value.employee_timesheets[t]
                                       .daily_entries[k].entry_date)

\* site entries on days 5 and 45 extend the end date from day 10 to day 45, and
\* the travel entry that carried the placeholder comes out dated day 45
C20_Witness ==
    /\ cons_pc = "consolidated"
    /\ cons_out.ok
    /\ cons_in.site_data.pay_period_end_date = 10
    /\ SiteDates = {5, 45}
    /\ TravelDates = {SentinelDate}
    /\ \E t \in 1..Len(cons_out.value.employee_timesheets) :
          TravelDatesOut(t) = <<45>>

(***************************************************************************)
(* The consolidation specification over overtime registries                *)
(***************************************************************************)
\* the registries the overtime reader can hand over (keys are distinct strings,
\* an unflagged record has no rate, a flagged record may lack one)
ConsRegistries ==
    { <<>>,
      ConsOvertimeData.lookup,
      << [name |-> "Ann Lee", has_different_overtime_rate |-> TRUE,
          overtime_rate |-> {15}] >>,
      << [name |-> "Ann Lee", has_different_overtime_rate |-> FALSE,
          overtime_rate |-> NoValue],
         [name |-> "ann lee", has_different_overtime_rate |-> TRUE,
          overtime_rate |-> {12}] >>,
      << [name |-> "Ann Lee", has_different_overtime_rate |-> TRUE,
          overtime_rate |-> NoValue] >>,
      << [name |-> "ANN LEE", has_different_overtime_rate |-> TRUE,
          overtime_rate |-> {12}],
         [name |-> "ann lee", has_different_overtime_rate |-> TRUE,
          overtime_rate |-> {15}] >> }

ConsRateSiteEntry == [entry_date : {5}, region_name : {"North"}, hours : {8},
                      hour_type : {"REGULAR", "OVERTIME", "HOLIDAY"}]

ConsRateTravelEntry == [entry_date : {SentinelDate}, region_name : {"North"},
                        hours : {4}, hour_type : {"TRAVEL"}]

ConsRatesInit ==
    /\ cons_pc = "start"
    /\ \E layout \in ConsLayouts, registry \in ConsRegistries :
         \E slens \in LenVectors(Len(layout.site), MaxConsLongEntries) :
           \E tlens \in LenVectors(Len(layout.travel),
                                   MaxConsLongEntries - SumSeq(slens)) :
             \E sflat \in [1..SumSeq(slens) -> ConsRateSiteEntry],
                tflat \in [1..SumSeq(tlens) -> ConsRateTravelEntry] :
               cons_in =
                 [ConsInput(EmployeeRecords(layout.site, slens, sflat),
                            EmployeeRecords(layout.travel, tlens, tflat),
                            [given |-> FALSE, regions |-> {}])
                    EXCEPT !.overtime_data.lookup = registry]
    /\ cons_out = <<>>
    /\ export_out = <<>>
    /\ report_out = <<>>
    /\ ts_in = <<>>
    /\ ts_out = <<>>
    /\ cons_calls = 0
    /\ CapIdle
    /\ EntryIdle
    /\ MatchIdle
    /\ BuildIdle
    /\ ParseIdle

SpecConsRates == ConsRatesInit /\ [][ConsNext]_vars

(***************************************************************************)
(* Claims about the overtime rate of an entry                              *)
(***************************************************************************)
\* the registry records whose name equals the employee's, case ignored
RegistryRecords(name) ==
    {r \in SeqRange(cons_in.overtime_data.lookup) : Lower(r.name) = Lower(name)}

\* C21: an output entry carries an overtime rate only if its hour type is
\* OVERTIME and a registry record for the employee's name, case ignored, is
\* flagged as having a custom rate, and the rate is then that record's rate;
\* REGULAR, HOLIDAY and TRAVEL entries and the overtime entries of unflagged or
\* unlisted employees carry none.
C21_OvertimeRate ==
    (cons_pc = "consolidated" /\ cons_out.ok) =>
        \A t \in 1..Len(cons_out.value.employee_timesheets) :
            LET sheet == cons_out.value.employee_timesheets[t]
                records == RegistryRecords(sheet.employee_name)
                flagged == {r \in records : r.has_different_overtime_rate}
            IN \A k \in 1..Len(sheet.daily_entries) :
                 LET e == sheet.daily_entries[k]
                 IN /\ e.overtime_rate # NoValue =>
                          /\ e.hour_type = "OVERTIME"
                          /\ \E r \in flagged : e.overtime_rate = r.overtime_rate
                    /\ (e.hour_type # "OVERTIME" \/ flagged = {}) =>
                          e.overtime_rate = NoValue
                    /\ (e.hour_type = "OVERTIME" /\ flagged # {}) =>
                          \E r \in flagged : e.overtime_rate = r.overtime_rate

\* "Ann Lee" is listed as "ann lee" with the custom rate 15: her OVERTIME entry
\* carries 15 and her HOLIDAY entry carries no rate
C21_Witness ==
    /\ cons_pc = "consolidated"
    /\ cons_out.ok
    /\ cons_in.overtime_data.lookup = ConsOvertimeData.lookup
    /\ \E t \in 1..Len(cons_out.value.employee_timesheets) :
          LET sheet == cons_out.value.employee_timesheets[t]
          IN /\ sheet.employee_name = "Ann Lee"
             /\ \E j, k \in 1..Len(sheet.daily_entries) :
                   /\ sheet.daily_entries[j].hour_type = "OVERTIME"
                   /\ sheet.daily_entries[j].overtime_rate = {15}
                   /\ sheet.daily_entries[k].hour_type = "HOLIDAY"
                   /\ sheet.daily_entries[k].overtime_rate = NoValue

(***************************************************************************)
(* Claims about the candidates of a fuzzy match                            *)
(***************************************************************************)
\* the last call was a match_employee whose result is the one the matcher
\* computes for the name against the roster it holds, with no exact match
ComputedFuzzyCall ==
    /\ m_pc = "session"
    /\ match_call.op = "match_employee"
    /\ Strip(match_call.timesheet_name) # ""
    /\ FindExactMatch(Strip(match_call.timesheet_name), employee_lookup) = NoValue
    /\ match_call.result = ComputeMatch(Strip(match_call.timesheet_name),
                                        match_call.require_confirmation,
                                        xero_employees, employee_lookup)

\* the scores of the last call's name against a roster entry
CallScores(employee) ==
    FuzzScores(Strip(Lower(Strip(match_call.timesheet_name))),
               Strip(Lower(employee.name)))

\* the roster entry is the match or one of the suggestions of the last call
Proposed(employee) ==
    \/ match_call.result.matched_id = {employee.employee_id}
    \/ \E k \in 1..Len(match_call.result.suggestions) :
          match_call.result.suggestions[k].employee_id = employee.employee_id

\* the primary score reaches the suggestion threshold and a token-based score
\* reaches it too or the surname score reaches the secondary threshold
PassesRule(s, secondary) ==
    /\ Max(Max(s.ratio_score, s.partial_score),
           Max(s.token_sort_score, s.token_set_score)) >= SuggestionThreshold
    /\ \/ s.token_sort_score >= SuggestionThreshold
       \/ s.token_set_score >= SuggestionThreshold
       \/ s.last_name_score >= secondary

\* C22 (as the code has it): a roster entry is proposed for a name without an
\* exact match only if its primary score reaches the suggestion threshold and
\* a token-based score reaches it too or the surname score reaches 60, the
\* value of the suggestion threshold itself; the entries that pass are all
\* proposed, up to the five the suggestion list holds.
C22_CandidateRule ==
    ComputedFuzzyCall =>
        LET passing == {k \in 1..Len(xero_employees) :
                          PassesRule(CallScores(xero_employees[k]), LastNameThreshold)}
            proposed == {k \in 1..Len(xero_employees) : Proposed(xero_employees[k])}
        IN /\ proposed \subseteq passing
           /\ Cardinality(proposed) = Min(MaxSuggestions, Cardinality(passing))

\* C22: a roster entry is proposed for a name without an exact match only if
\* its primary score reaches the suggestion threshold and a token-based score
\* reaches it too or the surname score reaches a secondary threshold that is
\* stricter than the suggestion threshold.
C22_CandidateAsStated ==
    ComputedFuzzyCall =>
        \A k \in 1..Len(xero_employees) :
            Proposed(xero_employees[k])
                => PassesRule(CallScores(xero_employees[k]), SuggestionThreshold + 1)

\* "Smithers" reaches the primary threshold against John Smith through the
\* partial ratio alone and is not proposed; "John Doe" is proposed through the
\* token set ratio
C22_Witness ==
    /\ ComputedFuzzyCall
    /\ \E k \in 1..Len(xero_employees) :
          LET s == CallScores(xero_employees[k])
          IN \/ /\ match_call.timesheet_name = "Smithers"
                /\ s.partial_score >= SuggestionThreshold
                /\ ~Proposed(xero_employees[k])
                /\ match_call.result.confidence = "NO_MATCH"

(***************************************************************************)
(* The matcher on a roster it has been given (validation.py 425-513,       *)
(* 653-686)                                                                *)
(***************************************************************************)
MaxTierCalls == 2       \* matcher calls after the roster is set

TierNames == MatchNames \cup {"John Lee"}

\* the rosters of SpecMatch and one with six employees of the same name
TierRosters ==
    Rosters \cup
    { << [employee_id |-> "E1", name |-> "John Smith"],
         [employee_id |-> "E2", name |-> "Ann Lee"],
         [employee_id |-> "E3", name |-> "John Smith"],
         [employee_id |-> "E4", name |-> "John Smith"],
         [employee_id |-> "E5", name |-> "John Smith"],
         [employee_id |-> "E6", name |-> "John Smith"],
         [employee_id |-> "E7", name |-> "John Smith"] >> }

\* EmployeeMatcher() followed by set_xero_employees(roster)
TiersInit ==
    /\ m_pc = "tiers"
    /\ \E roster \in TierRosters :
          LET out == SetXeroEmployeesOutcome(roster, <<>>)
          IN /\ xero_employees = out.xero_employees
             /\ employee_lookup = out.employee_lookup
             /\ match_cache = out.cache
             /\ match_call = [op |-> "set_xero_employees", xero_employees |-> roster]
    /\ confirmed = {}
    /\ dropped = <<>>
    /\ calls = 0
    /\ val_in = <<>>
    /\ val_out = <<>>
    /\ CapIdle
    /\ ConsIdle
    /\ EntryIdle
    /\ BuildIdle
    /\ ParseIdle

\* matcher.match_employee(timesheet_name, require_confirmation)
TierMatchEmployee ==
    /\ m_pc = "tiers"
    /\ calls < MaxTierCalls
    /\ \E timesheet_name \in TierNames, require_confirmation \in BOOLEAN :
          LET out == MatchEmployeeOutcome(timesheet_name, require_confirmation,
                                          xero_employees, employee_lookup,
                                          match_cache)
          IN /\ match_cache' = out.cache
             /\ match_call' = [op |-> "match_employee",
                               timesheet_name |-> timesheet_name,
                               require_confirmation |-> require_confirmation,
                               result |-> out.result]
    /\ calls' = calls + 1
    /\ UNCHANGED <<m_pc, xero_employees, employee_lookup, confirmed, dropped, val_in,
                   val_out,
                   capVars, consVars, entryVars, buildVars, parseVars>>

\* matcher.confirm_match(timesheet_name, confirmed_employee_id)
TierConfirmMatch ==
    /\ m_pc = "tiers"
    /\ calls < MaxTierCalls
    /\ \E timesheet_name \in ConfirmNames, confirmed_employee_id \in EmployeeIds :
          LET out == ConfirmMatchOutcome(timesheet_name, confirmed_employee_id,
                                         xero_employees, match_cache)
          IN /\ match_cache' = out.cache
             /\ confirmed' = IF out.result THEN confirmed \cup {timesheet_name}
                             ELSE confirmed
             /\ match_call' = [op |-> "confirm_match",
                               timesheet_name |-> timesheet_name,
                               confirmed_employee_id |-> confirmed_employee_id,
                               result |-> out.result]
    /\ calls' = calls + 1
    /\ UNCHANGED <<m_pc, xero_employees, employee_lookup, dropped, val_in, val_out,
                   capVars, consVars, entryVars, buildVars, parseVars>>

TiersNext == TierMatchEmployee \/ TierConfirmMatch

SpecTiers == TiersInit /\ [][TiersNext]_vars

(***************************************************************************)
(* Claims about the confidence tiers                                       *)
(***************************************************************************)
\* the tier the cut points give a score
TierOfScore(score) ==
    CASE score >= AutoMatchThreshold -> "HIGH"
      [] score < AutoMatchThreshold /\ score >= MediumThreshold -> "MEDIUM"
      [] score < MediumThreshold /\ score >= LowThreshold -> "LOW"
      [] score < LowThreshold -> "NO_MATCH"

\* the suggestion list holds at most five candidates, each at or above the
\* suggestion threshold, in descending score order
SuggestionsRanked(suggestions) ==
    /\ Len(suggestions) <= 5
    /\ \A k \in 1..Len(suggestions) : suggestions[k].score >= SuggestionThreshold
    /\ \A j, k \in 1..Len(suggestions) :
          j < k => suggestions[j].score >= suggestions[k].score

\* the tier, the matched employee and the suggestions of a result agree
TiersAndSuggestions(result) ==
    /\ result.confidence = TierOfScore(result.confidence_score)
    /\ (result.matched_name = NoValue) <=> (result.confidence = "NO_MATCH")
    /\ (result.matched_id = NoValue) <=> (result.confidence = "NO_MATCH")
    /\ SuggestionsRanked(result.suggestions)

\* the name of the last call has an exact match in the roster
CallIsExact ==
    FindExactMatch(Strip(match_call.timesheet_name), employee_lookup) # NoValue

\* C23 (as stated): every result of match_employee has the tier of its score,
\* needs no confirmation only when the tier is HIGH and confirmation is
\* disabled or the match is exact, lacks the matched name and id exactly when
\* the tier is NO_MATCH, and lists at most 5 suggestions, each at or above the
\* suggestion threshold, in descending score order.
C23_TiersAsStated ==
    (m_pc = "tiers" /\ match_call.op = "match_employee") =>
        /\ TiersAndSuggestions(match_call.result)
        /\ ~match_call.result.requires_confirmation =>
              /\ match_call.result.confidence = "HIGH"
              /\ ~match_call.require_confirmation \/ CallIsExact

\* C23 (amended): as stated, and a result also needs no confirmation when the
\* name was confirmed by confirm_match since the roster was set.
C23_Tiers ==
    (m_pc = "tiers" /\ match_call.op = "match_employee") =>
        /\ TiersAndSuggestions(match_call.result)
        /\ ~match_call.result.requires_confirmation =>
              /\ match_call.result.confidence = "HIGH"
              /\ \/ ~match_call.require_confirmation
                 \/ CallIsExact
                 \/ Strip(match_call.timesheet_name) \in confirmed

\* "John Lee" against a roster of seven: all seven are candidates, the list
\* holds five, Ann Lee (83.33) ahead of the John Smiths (76.92), the tier is
\* MEDIUM and confirmation is required although it was disabled
C23_Witness ==
    /\ m_pc = "tiers"
    /\ match_call.op = "match_employee"
    /\ match_call.timesheet_name = "John Lee"
    /\ ~match_call.require_confirmation
    /\ Len(xero_employees) = 7
    /\ match_call.result.confidence = "MEDIUM"
    /\ match_call.result.requires_confirmation
    /\ match_call.result.matched_id = {"E2"}
    /\ Len(match_call.result.suggestions) = 5
    /\ match_call.result.suggestions[1].score > match_call.result.suggestions[2].score

(***************************************************************************)
(* The payload-building specification over the hours and rates of the      *)
(* entries                                                                 *)
(***************************************************************************)
MaxLineEntries == 3     \* entries of the timesheet

LineEndDate == 6

\* 0, 4 and 7.333 hours
LineHours == {0, 4000, 7333}

LineRates == {NoValue, {15}}

\* the entries of one employee: the overtime entries carry the employee's rate,
\* the regular entries carry regular_rate; an entry of 0 hours is a regular one
LineEntries(rate, regular_rate) ==
    {e \in {[entry_date |-> d, region_name |-> r, hours |-> h, hour_type |-> t,
             overtime_rate |-> IF t = "OVERTIME" THEN rate ELSE regular_rate] :
               d \in {0, 1}, r \in {"North", "South"}, h \in LineHours,
               t \in {"REGULAR", "OVERTIME"}} :
        e.hours = 0 => e.hour_type = "REGULAR"}

LineTrackingMappings ==
    <<[key |-> "North", value |-> {"T-N"}], [key |-> "South", value |-> {"T-S"}]>>

LineEarningsMappings ==
    <<[key |-> "REGULAR", value |-> "R-1"], [key |-> "OVERTIME", value |-> "O-1"]>>

LinesInit ==
    /\ build_pc = "start"
    /\ \E n \in 1..MaxLineEntries, rate \in LineRates :
         \E regular_rate \in {NoValue, rate} :
           \E daily_entries \in [1..n -> LineEntries(rate, regular_rate)] :
              /\ EmployeeTimesheetValid("Ann Lee", daily_entries, LineEndDate)
              /\ build_in = [employee_timesheet |->
                                [employee_name |-> "Ann Lee",
                                 daily_entries |-> daily_entries,
                                 pay_period_end_date |-> LineEndDate,
                                 xero_employee_id |-> {"E1"},
                                 payroll_calendar_id |-> NoValue],
                             tracking_mappings |-> LineTrackingMappings,
                             earnings_mappings |-> LineEarningsMappings]
    /\ build_out = <<>>
    /\ CapIdle
    /\ ConsIdle
    /\ EntryIdle
    /\ MatchIdle
    /\ ParseIdle

SpecLines == LinesInit /\ [][BuildTimesheetCall]_vars

(***************************************************************************)
(* Claims about the lines of a payload                                     *)
(***************************************************************************)
InputEntriesOfCall == build_in.employee_timesheet.daily_entries

\* the distinct (date, region, hour type) of the entries
GroupKeys ==
    {<<InputEntriesOfCall[k].entry_date, InputEntriesOfCall[k].region_name,
       InputEntriesOfCall[k].hour_type>> : k \in 1..Len(InputEntriesOfCall)}

\* the hours of the entries of a group, added up
RECURSIVE GroupSumUpTo(_, _)
GroupSumUpTo(key, n) ==
    IF n = 0 THEN 0
    ELSE GroupSumUpTo(key, n - 1)
           + (IF <<InputEntriesOfCall[n].entry_date, InputEntriesOfCall[n].region_name,
                   InputEntriesOfCall[n].hour_type>> = key
              THEN InputEntriesOfCall[n].hours ELSE 0)

GroupSum(key) == GroupSumUpTo(key, Len(InputEntriesOfCall))

\* the lines of the payload that stand for a group
LinesFor(key) ==
    {k \in 1..Len(build_out.value.TimesheetLines) :
        LET line == build_out.value.TimesheetLines[k]
        IN /\ line.Date = IsoFormat(key[1])
           /\ line.TrackingItemID = DictGet(LineTrackingMappings, key[2])
           /\ line.EarningsRateID = DictGet(LineEarningsMappings, key[3])}

RECURSIVE UnitsUpTo(_)
UnitsUpTo(n) ==
    IF n = 0 THEN 0
    ELSE UnitsUpTo(n - 1) + build_out.value.TimesheetLines[n].NumberOfUnits

\* the sum of NumberOfUnits over the lines, and of hours over the entries
UnitsOfLines == UnitsUpTo(Len(build_out.value.TimesheetLines))

HoursOfEntries == TotalHours(InputEntriesOfCall)

\* u is n rounded to a whole hundredth
RoundedTo(u, n) == u % 10 = 0 /\ u - n <= 5 /\ n - u <= 5

\* one line for each group with a positive sum, carrying the rounded sum, and
\* no other line
OneLinePerGroup ==
    /\ \A key \in GroupKeys :
          IF GroupSum(key) > 0
          THEN /\ Cardinality(LinesFor(key)) = 1
               /\ \A k \in LinesFor(key) :
                     RoundedTo(build_out.value.TimesheetLines[k].NumberOfUnits,
                               GroupSum(key))
          ELSE LinesFor(key) = {}
    /\ Len(build_out.value.TimesheetLines)
          = Cardinality({key \in GroupKeys : GroupSum(key) > 0})

\* C24 (as stated): one line for each (date, region, hour type) group with a
\* positive sum, carrying the sum rounded to 2 decimals, no line for a zero
\* sum, and the units of the lines add up to the hours of the entries.
C24_LinesAsStated ==
    (build_pc = "built" /\ build_out.ok) =>
        /\ OneLinePerGroup
        /\ UnitsOfLines = HoursOfEntries

\* C24 (amended): one line for each (date, region, hour type) group with a
\* positive sum, carrying the sum rounded to 2 decimals, and no line for a zero
\* sum; the units of the lines add up to the hours of the entries when every
\* group sum is a whole number of hundredths, and otherwise differ from it by
\* at most half a hundredth per line.
C24_Lines ==
    (build_pc = "built" /\ build_out.ok) =>
        /\ OneLinePerGroup
        /\ (\A key \in GroupKeys : GroupSum(key) % 10 = 0)
              => UnitsOfLines = HoursOfEntries
        /\ UnitsOfLines - HoursOfEntries <= 5 * Len(build_out.value.TimesheetLines)
        /\ HoursOfEntries - UnitsOfLines <= 5 * Len(build_out.value.TimesheetLines)

\* 4 and 7.333 hours on one day, region and type make one line of 11.33 units,
\* and the 0 hours of another day make none
C24_Witness ==
    /\ build_pc = "built"
    /\ build_out.ok
    /\ Len(InputEntriesOfCall) = 3
    /\ Len(build_out.value.TimesheetLines) = 1
    /\ build_out.value.TimesheetLines[1].NumberOfUnits = 11330
    /\ HoursOfEntries = 11333
    /\ \E key \in GroupKeys : GroupSum(key) = 0

\* the hour type of a line, read back from its earnings rate
LineIsOvertime(line) ==
    line.EarningsRateID = DictGet(LineEarningsMappings, "OVERTIME")

\* the rate the overtime entries of the timesheet carry
EmployeeRate ==
    UNION {InputEntriesOfCall[k].overtime_rate :
              k \in {j \in 1..Len(InputEntriesOfCall) :
                        InputEntriesOfCall[j].hour_type = "OVERTIME"}}

\* C25: a line carries RatePerUnit if and only if its hour type is OVERTIME and
\* the entries grouped into it carry a custom overtime rate, and the value is
\* that rate; lines of other hour types never carry RatePerUnit.
C25_RatePerUnit ==
    (build_pc = "built" /\ build_out.ok) =>
        \A k \in 1..Len(build_out.value.TimesheetLines) :
            LET line == build_out.value.TimesheetLines[k]
            IN /\ (line.RatePerUnit # NoValue)
                     <=> (LineIsOvertime(line) /\ EmployeeRate # {})
               /\ line.RatePerUnit # NoValue => line.RatePerUnit = EmployeeRate
               /\ ~LineIsOvertime(line) => line.RatePerUnit = NoValue

\* an OVERTIME line with the rate 15 next to a REGULAR line without one, whose
\* entry carries a rate too
C25_Witness ==
    /\ build_pc = "built"
    /\ build_out.ok
    /\ \E j, k \in 1..Len(build_out.value.TimesheetLines) :
          /\ LineIsOvertime(build_out.value.TimesheetLines[j])
          /\ build_out.value.TimesheetLines[j].RatePerUnit = {15}
          /\ ~LineIsOvertime(build_out.value.TimesheetLines[k])
          /\ build_out.value.TimesheetLines[k].RatePerUnit = NoValue
    /\ \E k \in 1..Len(InputEntriesOfCall) :
          /\ InputEntriesOfCall[k].hour_type = "REGULAR"
          /\ InputEntriesOfCall[k].hours > 0
          /\ InputEntriesOfCall[k].overtime_rate = {15}

(***************************************************************************)
(* Claims about the dates of the lines                                     *)
(***************************************************************************)
\* every line of the payload is dated within [StartDate, EndDate]
LinesWithinWindow ==
    \A k \in 1..Len(build_out.value.TimesheetLines) :
        LET day == ParseIso(build_out.value.TimesheetLines[k].Date)
        IN /\ ParseIso(build_out.value.StartDate) <= day
           /\ day <= ParseIso(build_out.value.EndDate)

\* the entry dates of the timesheet span more than 30 days
LongSpan ==
    \E j, k \in 1..Len(build_in.employee_timesheet.daily_entries) :
        build_in.employee_timesheet.daily_entries[k].entry_date
          - build_in.employee_timesheet.daily_entries[j].entry_date > 30

\* C28: in every payload build_timesheet returns, the Date of every line lies
\* within [StartDate, EndDate], also when the entries span more than 30 days
\* and the window is the 7 days from the earliest entry.
C28_LinesInWindow ==
    (build_pc = "built" /\ build_out.ok) => LinesWithinWindow

\* C28 (what the code ensures): the lines lie within the window when the
\* entries span at most 30 days.
C28_LinesInWindowShortSpan ==
    (build_pc = "built" /\ build_out.ok /\ ~LongSpan) => LinesWithinWindow

\* entries on 2024-01-01 and 2024-02-01: the window is 2024-01-01 to
\* 2024-01-07 and a line is dated 2024-02-01
C28_Witness ==
    /\ build_pc = "built"
    /\ build_out.ok
    /\ LongSpan
    /\ build_out.value.StartDate = <<2024, 1, 1>>
    /\ build_out.value.EndDate = <<2024, 1, 7>>
    /\ \E k \in 1..Len(build_out.value.TimesheetLines) :
          build_out.value.TimesheetLines[k].Date = <<2024, 2, 1>>

(***************************************************************************)
(* The reading specification over the date-column cells of a site sheet    *)
(***************************************************************************)
MaxCellRows == 2        \* employee rows of the sheet

\* a cell holds nothing, a number or a text
CellContents ==
    {[hours |-> h, text |-> NoValue] : h \in {0, 8}}
      \cup {[hours |-> 0, text |-> {t}] :
               t \in {"HOL", " hol ", "South", "7,0", "0,0"}}

CellRows ==
    {[name |-> n, hours |-> c.hours, overtime |-> o, text |-> c.text] :
        n \in {"Ann Lee", "Bob Ray"}, c \in CellContents, o \in {0, 2}}

\* a workbook with one site sheet that is read to the end
CellsInit ==
    /\ parse_pc = "start"
    /\ \E n \in 1..MaxCellRows, week_ending \in {NoValue, {10}} :
         \E rows \in [1..n -> CellRows] :
            parse_in = [reader |-> "site",
                        file |-> [state |-> "workbook",
                                  sheets |-> << [looks_valid |-> TRUE,
                                                 title_phrase |-> FALSE,
                                                 week_ending |-> week_ending,
                                                 dates |-> <<5>>, rows |-> rows,
                                                 failure |-> "none",
                                                 merged |-> 0] >>]]
    /\ parse_out = <<>>
    /\ CapIdle
    /\ ConsIdle
    /\ EntryIdle
    /\ MatchIdle
    /\ BuildIdle

SpecCells == CellsInit /\ [][SiteParseCall]_vars

(***************************************************************************)
(* Claims about the cells of a site sheet                                  *)
(***************************************************************************)
CellRowsRead == parse_in.file.sheets[1].rows

\* the entries the date-column cells of the rows of an employee should add, in
\* row order, given what a cell of each kind adds
RECURSIVE CellEntriesUpTo(_, _, _)
CellEntriesUpTo(name, n, numeric_text_is_hours) ==
    IF n = 0 THEN <<>>
    ELSE LET row == CellRowsRead[n]
             before == CellEntriesUpTo(name, n - 1, numeric_text_is_hours)
             text == CHOOSE t \in row.text : TRUE
             overtime == IF row.overtime > 0
                         THEN <<"overtime">> ELSE <<>>
             cell ==
               IF row.text = NoValue
               THEN IF row.hours > 0
                    THEN <<ParsedEntry(5, "North", row.hours, "REGULAR")>>
                    ELSE <<>>
               ELSE IF text \in {"HOL", " hol "}
               THEN <<ParsedEntry(5, "North", 8, "HOLIDAY")>>
               ELSE IF numeric_text_is_hours /\ text \in {"7,0", "0,0"}
               THEN IF CellValueToFloat(text) > 0
                    THEN <<ParsedEntry(5, "North", CellValueToFloat(text), "REGULAR")>>
                    ELSE <<>>
               ELSE <<ParsedEntry(5, text, 8, "REGULAR")>>
         IN IF row.name = name THEN before \o cell \o overtime ELSE before

\* the entries of an employee in the result, an overtime entry shown as a mark
ResultEntriesOf(name) ==
    LET found == {k \in 1..Len(parse_out.value.employees) :
                     parse_out.value.employees[k].employee_name = name}
        entries == IF found = {} THEN <<>>
                   ELSE parse_out.value.employees[CHOOSE k \in found : TRUE].entries
    IN [k \in 1..Len(entries) |->
           IF entries[k].hour_type = "OVERTIME" THEN "overtime" ELSE entries[k]]

\* C26: the holiday token yields a HOLIDAY entry of the fixed holiday hours on
\* the sheet's region; a number or a text that reads as a number (a comma for
\* the decimal point) yields no entry when it is <= 0 and otherwise a REGULAR
\* entry with that many hours on the sheet's region; any other text yields a
\* REGULAR entry of the override hours whose region is the text.
C26_CellsAsStated ==
    (parse_pc = "parsed" /\ parse_out.ok) =>
        \A name \in {"Ann Lee", "Bob Ray"} :
            ResultEntriesOf(name) = CellEntriesUpTo(name, Len(CellRowsRead), TRUE)

\* C26 (what the code does): as stated for the holiday token, for numbers and
\* for other texts; a text that reads as a number is handled as any other
\* text, a REGULAR entry of the override hours whose region is the text.
C26_Cells ==
    (parse_pc = "parsed" /\ parse_out.ok) =>
        \A name \in {"Ann Lee", "Bob Ray"} :
            ResultEntriesOf(name) = CellEntriesUpTo(name, Len(CellRowsRead), FALSE)

\* a cell holding the text "7,0" has become 8 REGULAR hours in a region "7,0"
C26_Witness ==
    /\ parse_pc = "parsed"
    /\ parse_out.ok
    /\ \E r \in 1..Len(CellRowsRead) : CellRowsRead[r].text = {"7,0"}
    /\ \E k \in 1..Len(parse_out.value.employees) :
          \E j \in 1..Len(parse_out.value.employees[k].entries) :
             parse_out.value.employees[k].entries[j]
                = ParsedEntry(5, "7,0", 8, "REGULAR")

(***************************************************************************)
(* The consolidation specification over several calls on one               *)
(* DataConsolidator                                                        *)
(***************************************************************************)
MaxConsCalls == 3       \* consolidate calls on the DataConsolidator

\* one site entry of Ann Lee, in a valid or an unknown region, inside or after
\* the pay period, in inputs that are sound, lack the end date or lack the
\* overtime lookup; the valid regions are {"North"}
SeqInputs ==
    {[DefectiveInput(<<[employee_name |-> "Ann Lee",
                        entries |-> <<[entry_date |-> d, region_name |-> r,
                                       hours |-> 8, hour_type |-> "REGULAR"]>>]>>,
                     <<>>, ConsEndDate, defect)
        EXCEPT !.valid_regions = [given |-> TRUE, regions |-> {"North"}]] :
        d \in ConsSiteDays, r \in {"North", "South", "West"},
        defect \in {"none", "site_end_date", "overtime_lookup"}}

\* DataConsolidator() and the arguments of its first consolidate call
ConsSeqInit ==
    /\ cons_pc = "start"
    /\ cons_in \in SeqInputs
    /\ cons_out = <<>>
    /\ export_out = <<>>
    /\ report_out = <<>>
    /\ ts_in = <<>>
    /\ ts_out = <<>>
    /\ cons_calls = 0
    /\ CapIdle
    /\ EntryIdle
    /\ MatchIdle
    /\ BuildIdle
    /\ ParseIdle

\* a further consolidator.consolidate(...): a call that raises before lines
\* 70-71 leaves the unknown-region attributes as it found them
ConsolidateAgain ==
    /\ cons_pc \in {"consolidated", "reported"}
    /\ cons_calls < MaxConsCalls
    /\ \E input \in SeqInputs :
          LET out == Consolidate(input.site_data, input.travel_data,
                                 input.overtime_data, input.valid_regions)
          IN /\ cons_in' = input
             /\ cons_out' = IF out.tracked THEN out
                            ELSE [out EXCEPT
                                    !.tracked = cons_out.tracked,
                                    !.unknown_regions = cons_out.unknown_regions,
                                    !.unknown_region_entries =
                                        cons_out.unknown_region_entries]
    /\ cons_pc' = "consolidated"
    /\ cons_calls' = cons_calls + 1
    /\ UNCHANGED <<export_out, report_out, ts_in, ts_out,
                 capVars, entryVars, matchVars, buildVars, parseVars>>

\* consolidator.get_unknown_region_report() after a consolidate call that
\* returned or raised: it raises AttributeError when no call has reached lines
\* 70-71 yet
ReportAfterCall ==
    /\ cons_pc = "consolidated"
    /\ report_out' = IF cons_out.tracked
                     THEN Returned(UnknownRegionReport(cons_out.unknown_regions,
                                                       cons_out.unknown_region_entries))
                     ELSE Raises
    /\ cons_pc' = "reported"
    /\ UNCHANGED <<cons_in, cons_out, export_out, ts_in, ts_out, cons_calls,
                 capVars, entryVars, matchVars, buildVars, parseVars>>

ConsSeqNext == ConsolidateCall \/ ConsolidateAgain \/ ReportAfterCall

SpecConsSeq == ConsSeqInit /\ [][ConsSeqNext]_vars

(***************************************************************************)
(* Claims about the report after several calls                             *)
(***************************************************************************)
\* the report of the unknown regions the most recent call came across: those of
\* the same call on a DataConsolidator of its own, none when the call raised
\* before it looked at an entry
ReportOfLastCall ==
    LET alone == Consolidate(cons_in.site_data, cons_in.travel_data,
                             cons_in.overtime_data, cons_in.valid_regions)
    IN UnknownRegionReport(alone.unknown_regions, alone.unknown_region_entries)

\* C27: after every sequence of consolidate calls on one DataConsolidator,
\* returning or raising, get_unknown_region_report returns exactly the unknown
\* regions and entries of the most recent call, never those of an earlier one.
C27_ReportOfLastCall ==
    cons_pc = "reported" =>
        /\ report_out.ok
        /\ report_out.value = ReportOfLastCall

\* C27 (what the code ensures): the report is that of the most recent call
\* whenever that call got past the validation of its inputs.
C27_ReportOfLastCallPastValidation ==
    (/\ cons_pc = "reported"
     /\ ValidateInputData(cons_in.site_data, cons_in.travel_data,
                          cons_in.overtime_data)) =>
        /\ report_out.ok
        /\ report_out.value = ReportOfLastCall

\* the last call raised on an input without an end date and the report still
\* lists the region "South" of the call before
C27_Witness ==
    /\ cons_pc = "reported"
    /\ cons_calls = 2
    /\ ~cons_in.site_data.has_end_date
    /\ ~cons_out.ok
    /\ report_out.ok
    /\ report_out.value.unknown_regions = {"South"}
    /\ Len(report_out.value.unknown_region_entries) = 1
    /\ ReportOfLastCall.unknown_regions = {}

(***************************************************************************)
(* Claims about confirmed matches                                          *)
(***************************************************************************)
\* the result confirm_match stored for a name it accepted
ConfirmedResult(name) == DictGet(match_cache, <<name, TRUE>>)

\* the last call was a match_employee for a name confirm_match has accepted
\* since the roster was set
LookupOfConfirmedName ==
    /\ m_pc = "session"
    /\ match_call.op = "match_employee"
    /\ match_call.timesheet_name \in confirmed

\* the last call returned the confirmed employee and asks for no confirmation
ConfirmationHonoured ==
    /\ match_call.result.matched_id
          = ConfirmedResult(match_call.timesheet_name).matched_id
    /\ ~match_call.result.requires_confirmation

\* C30: after confirm_match(name, id) returned true, every later
\* match_employee(name, require_confirmation) returns the confirmed id with
\* requires_confirmation false, for both values of require_confirmation, until
\* the roster is replaced.
C30_ConfirmationHonoured ==
    LookupOfConfirmedName => ConfirmationHonoured

\* C30 (what the code ensures): the confirmation is honoured by the lookups
\* that require confirmation, for a name without surrounding blanks.
C30_ConfirmationHonouredIfRequired ==
    (/\ LookupOfConfirmedName
     /\ match_call.require_confirmation
     /\ Strip(match_call.timesheet_name) = match_call.timesheet_name)
        => ConfirmationHonoured

\* "John Doe" was confirmed as E2 and the lookup without confirmation returns
\* the fuzzy match E1, to be confirmed
C30_Witness ==
    /\ LookupOfConfirmedName
    /\ match_call.timesheet_name = "John Doe"
    /\ ~match_call.require_confirmation
    /\ ConfirmedResult("John Doe").matched_id = {"E2"}
    /\ match_call.result.matched_id = {"E1"}
    /\ match_call.result.requires_confirmation

(***************************************************************************)
(* api_server.py: the /api/consolidate handler.  The two temp files hold   *)
(* JSON, so every date in them is an ISO string, here <<year, month, day>>. *)
(***************************************************************************)
\* the entries of one employee with the key of line 913, date.fromisoformat of
\* the stored string, next to the string itself
WithDateKey(entries) ==
    [k \in 1..Len(entries) |->
        [entry_date |-> ParseIso(entries[k].entry_date), iso |-> entries[k].entry_date,
         region_name |-> entries[k].region_name, hours |-> entries[k].hours,
         hour_type |-> entries[k].hour_type]]

\* the entries as the JSON holds them
WithoutDateKey(entries) ==
    [k \in 1..Len(entries) |->
        [entry_date |-> entries[k].iso, region_name |-> entries[k].region_name,
         hours |-> entries[k].hours, hour_type |-> entries[k].hour_type]]

\* cap_regular_hours_in_parsed_data on the employees of the JSON (line 524)
CapParsedEmployees(employees) ==
    [i \in 1..Len(employees) |->
        [employees[i] EXCEPT
            !.entries = WithoutDateKey(CapEmployeeEntries(WithDateKey(@)))]]

\* the positions of the employees whose name is a key of valid_employees_map
ValidatedIdx(employees, valid_employees_map) ==
    PositionsIn(Len(employees),
                {k \in 1..Len(employees) :
                    employees[k].employee_name \in DictKeys(valid_employees_map)})

\* filter_and_map_employees (531-545): the "employees" list of its result
FilterAndMapEmployees(employees, valid_employees_map) ==
    LET keep == ValidatedIdx(employees, valid_employees_map)
    IN [k \in 1..Len(keep) |->
           [employee_name |-> DictGet(valid_employees_map,
                                      employees[keep[k]].employee_name),
            entries |-> employees[keep[k]].entries]]

\* convert_dates_in_data (1068-1080) on the entries of the employees
ConvertDatesInEmployees(employees) ==
    [i \in 1..Len(employees) |->
        [employees[i] EXCEPT
            !.entries = [k \in 1..Len(@) |->
                            [@[k] EXCEPT !.entry_date = ParseIso(@)]]]]

\* lines 547-548: the two files as consolidate receives them
FilteredSiteData(data, employees, valid_employees_map) ==
    [file_type |-> data.file_type, has_employees |-> TRUE,
     employees |-> ConvertDatesInEmployees(
                       FilterAndMapEmployees(employees, valid_employees_map)),
     has_end_date |-> TRUE,
     pay_period_end_date |-> ParseIso(data.pay_period_end_date)]

FilteredTravelData(data, valid_employees_map) ==
    [file_type |-> data.file_type, has_employees |-> TRUE,
     employees |-> ConvertDatesInEmployees(
                       FilterAndMapEmployees(data.employees, valid_employees_map))]

\* the outcome of a handler that answered with an HTTPException before it
\* called consolidate
NotConsolidated ==
    ConsolidateOutcome(FALSE, NoPayroll, FALSE,
                       [unknown_regions |-> {}, unknown_region_entries |-> <<>>])

MaxPipeEntries == 4     \* entries in the site file of the parsed data

PipeEndDate == <<2024, 1, 11>>

PipeDays == {<<2024, 1, 6>>, <<2024, 1, 7>>}

\* the entries of the site file: regular hours on either day, overtime on the
\* second
PipeSiteEntry ==
    [entry_date : PipeDays, region_name : {"North"}, hours : {8, 24},
     hour_type : {"REGULAR"}]
    \cup {[entry_date |-> <<2024, 1, 7>>, region_name |-> "North", hours |-> 8,
           hour_type |-> "OVERTIME"]}

PipeTravelFiles ==
    { <<>>,
      << [employee_name |-> "Ann Lee",
          entries |-> << [entry_date |-> <<1900, 1, 1>>, region_name |-> "North",
                          hours |-> 4, hour_type |-> "TRAVEL"] >>] >> }

\* the names of the employee records of the site file
PipeSiteNames == { <<>>, <<"Ann Lee">>, <<"Ann Lee", "ANN LEE">>, <<"Ann Lee", "Bob Ray">> }

\* temp_validation_result["valid_employees"]: parsed name -> Xero name
PipeValidEmployees ==
    { <<>>,
      << [key |-> "Ann Lee", value |-> "Ann Lee"] >>,
      << [key |-> "Ann Lee", value |-> "Ann Lee"],
         [key |-> "Bob Ray", value |-> "Bob Ray"] >>,
      << [key |-> "Ann Lee", value |-> "Ann Lee"],
         [key |-> "ANN LEE", value |-> "Ann Lee"] >> }

PipeInit ==
    /\ cap_pc = "loaded"
    /\ \E names \in PipeSiteNames, travel \in PipeTravelFiles :
         \E lens \in LenVectors(Len(names), MaxPipeEntries) :
           \E flat \in [1..SumSeq(lens) -> PipeSiteEntry] :
             temp_parsed_data =
                 [site_data |-> [file_type |-> "site_timesheet",
                                 employees |-> EmployeeRecords(names, lens, flat),
                                 pay_period_end_date |-> PipeEndDate],
                  travel_data |-> [file_type |-> "travel_time", employees |-> travel],
                  overtime_data |-> ConsOvertimeData]
    /\ \E valid_employees \in PipeValidEmployees :
         temp_validation_result = [valid_regions |-> {"North"},
                              valid_employees |-> valid_employees]
    /\ site_in = temp_parsed_data.site_data.employees
    /\ site_out = <<>>
    /\ ConsIdle
    /\ EntryIdle
    /\ MatchIdle
    /\ BuildIdle
    /\ ParseIdle

\* POST /api/consolidate (499-584) with both temp files present
ConsolidateData ==
    /\ cap_pc = "loaded"
    /\ LET capped == CapParsedEmployees(temp_parsed_data.site_data.employees)
           valid_regions == [given |-> TRUE,
                             regions |-> temp_validation_result.valid_regions]
           valid_employees_map == temp_validation_result.valid_employees
           site_data == FilteredSiteData(temp_parsed_data.site_data, capped,
                                         valid_employees_map)
           travel_data == FilteredTravelData(temp_parsed_data.travel_data,
                                             valid_employees_map)
           called == site_data.employees # <<>> \/ travel_data.employees # <<>>
           outcome == IF called
                      THEN Consolidate(site_data, travel_data,
                                       temp_parsed_data.overtime_data, valid_regions)
                      ELSE NotConsolidated
       IN /\ site_out' = capped
          /\ cons_in' = [site_data |-> site_data, travel_data |-> travel_data,
                         overtime_data |-> temp_parsed_data.overtime_data,
                         valid_regions |-> valid_regions]
          /\ cons_out' = outcome
          /\ cons_calls' = IF called THEN cons_calls + 1 ELSE cons_calls
          /\ export_out' = IF outcome.ok THEN ToTargetJsonFormat(outcome.value)
                           ELSE export_out
          /\ report_out' = IF outcome.ok
                           THEN UnknownRegionReport(outcome.unknown_regions,
                                                    outcome.unknown_region_entries)
                           ELSE report_out
    /\ cap_pc' = "served"
    /\ UNCHANGED <<site_in, temp_parsed_data, temp_validation_result, cons_pc, ts_in, ts_out,
                 entryVars, matchVars, buildVars, parseVars>>

SpecPipe == PipeInit /\ [][ConsolidateData]_vars

\* the entries of a timesheet of the given hour type
EntriesOfType(daily_entries, hour_type) ==
    PositionsIn(Len(daily_entries),
                {k \in 1..Len(daily_entries) : daily_entries[k].hour_type = hour_type})

\* the handler consolidated the data
Consolidated == cap_pc = "served" /\ cons_out.ok

\* the timesheet has an OVERTIME entry and more than 40 REGULAR hours
OverCap(timesheet) ==
    /\ EntriesOfType(timesheet.daily_entries, "OVERTIME") # <<>>
    /\ HoursAt(timesheet.daily_entries,
               EntriesOfType(timesheet.daily_entries, "REGULAR")) > RegularCap

\* the site records of the parsed data that are mapped to the employee
SourceRecords(employee_name) ==
    {k \in 1..Len(site_in) :
        /\ site_in[k].employee_name \in DictKeys(temp_validation_result.valid_employees)
        /\ DictGet(temp_validation_result.valid_employees, site_in[k].employee_name)
              = employee_name}

\* C29: after capping, filtering and name mapping, and consolidation, every
\* EmployeeTimesheet with an OVERTIME entry has at most 40 REGULAR hours, also
\* when several source names are mapped to one employee.
C29_CapSurvivesPipeline ==
    Consolidated =>
        \A k \in 1..Len(cons_out.value.employee_timesheets) :
            ~OverCap(cons_out.value.employee_timesheets[k])

\* C29 (what the code ensures): the bound holds for every employee that one
\* record of the site file is mapped to.
C29_CapSurvivesForOneRecord ==
    Consolidated =>
        \A k \in 1..Len(cons_out.value.employee_timesheets) :
            Cardinality(SourceRecords(
                cons_out.value.employee_timesheets[k].employee_name)) <= 1
                => ~OverCap(cons_out.value.employee_timesheets[k])

\* "Ann Lee" and "ANN LEE" are both mapped to Ann Lee; the first record was
\* capped from 48 to 40 regular hours and the merged timesheet has 48
C29_Witness ==
    /\ Consolidated
    /\ Len(site_in) = 2
    /\ HasOvertimeEntries(site_in[1].entries)
    /\ RegularTotal(site_in[1].entries) = 48
    /\ RegularTotal(site_out[1].entries) = RegularCap
    /\ Cardinality(SourceRecords("Ann Lee")) = 2
    /\ \E k \in 1..Len(cons_out.value.employee_timesheets) :
          /\ cons_out.value.employee_timesheets[k].employee_name = "Ann Lee"
          /\ OverCap(cons_out.value.employee_timesheets[k])
          /\ HoursAt(cons_out.value.employee_timesheets[k].daily_entries,
                     EntriesOfType(cons_out.value.employee_timesheets[k].daily_entries,
                                   "REGULAR")) = 48

=============================================================================
